---- MODULE Spec2Model ----
(***************************************************************************)
(* A model of user-notify-reborn: the callback-URI codec of the Windows    *)
(* adapter (Adapter B), and the notification managers of the macOS adapter *)
(* (Adapter A) and the Windows adapter (Adapter B).                        *)
(*                                                                         *)
(* Strings are sequences of one-character strings, so that formatting and  *)
(* parsing act on characters as the code does.                             *)
(***************************************************************************)
EXTENDS Integers, Sequences, FiniteSets, TLC

VARIABLES
    cPc,        \* codec: "input" | "encoded" | "decoded"
    cIn,        \* codec: the scheme and the NotifyResponse given to encode_deeplink
    cUri,       \* codec: the link encode_deeplink returned
    cOut,       \* codec: what decode_deeplink returned for cUri
    platform,   \* "A" (macOS adapter) or "B" (Windows adapter): the target the crate is built for
    bundle,     \* A: whether NSBundle.mainBundle has a bundleIdentifier
    mgr,        \* per manager: NoManager, or the fields a constructor set
    handlerCell,    \* B: handler_callback (OnceLock): None or the handler
    categories,     \* B: the categories map (identifier -> actions)
    delegateRef,    \* A: whether delegate_reference (OnceCell) is set
    listener,       \* A: the worker thread register spawned: its handler and position
    chan,           \* A: the events queued in the delegate's bounded channel
    centerDelegate, \* A: the manager whose delegate the notification center holds, or None
    centerCategories, \* A: the categories set on the notification center
    toasts,     \* the notifications the OS holds (B: the history; A: delivered notifications)
    pending,    \* callbacks the OS has yet to run (B: subscriptions fired; A: send completions)
    calls,      \* every invocation of a caller's handler, in order
    nSent,      \* how many notification ids have been generated
    nEvents,    \* how many user interactions have happened
    dropped,    \* A: the events try_send refused
    completed,  \* A: per interaction, how often the delegate called its completion handler
    registered, \* the managers on which a call to register has returned Ok
    authorization,  \* A: the user's decision on notifications: the authorization status
    prompts,    \* A: how many times the OS has shown the permission prompt
    cleared,    \* what the last remove_all that returned Ok did, if no send was made since
    given,      \* per notification id: the user_metadata that was given to send
    last        \* the last operation: its name, manager, thread, result

codecVars == <<cPc, cIn, cUri, cOut>>
sysVars == <<platform, bundle, mgr, handlerCell, categories, delegateRef, listener, chan,
             centerDelegate, centerCategories, toasts, pending, calls, nSent, nEvents, dropped,
             completed, registered, authorization, prompts, cleared, given, last>>

\* The permission state the OS keeps for the application.
permVars == <<authorization, prompts>>

----------------------------------------------------------------------------
(* Characters and strings *)

\* Option::None, for a handler, a thread, a manager or a result ...
None == "None"
\* ... for an Option<String> (no string has a character "None") ...
NoneStr == <<"None">>
\* ... and for an Option<HashMap<String, String>>.
NoneMap == (NoneStr :> <<>>)

\* The characters the model's JSON texts are made of, with their ASCII codes
\* (the bytes base64 works on).
Ascii ==
    ("{" :> 123) @@ ("}" :> 125) @@ ("\"" :> 34) @@ (":" :> 58) @@ ("," :> 44)
    @@ ("\\" :> 92) @@ ("k" :> 107) @@ ("v" :> 118) @@ ("a" :> 97) @@ ("b" :> 98)
    @@ ("&" :> 38) @@ (";" :> 59) @@ ("m" :> 109) @@ ("p" :> 112)

CharOf(byte) ==
    IF \E c \in DOMAIN Ascii : Ascii[c] = byte
    THEN CHOOSE c \in DOMAIN Ascii : Ascii[c] = byte
    ELSE "?"

RECURSIVE Concat(_)
Concat(ss) == IF ss = <<>> THEN <<>> ELSE Head(ss) \o Concat(Tail(ss))

\* The index of the first character of s at or after i that is in cs; Len(s)+1 if none.
RECURSIVE FindFrom(_, _, _)
FindFrom(s, i, cs) ==
    IF i > Len(s) THEN Len(s) + 1
    ELSE IF s[i] \in cs THEN i
    ELSE FindFrom(s, i + 1, cs)

Slice(s, from, to) == IF to < from THEN <<>> ELSE SubSeq(s, from, to)

StartsWithAt(s, i, p) ==
    /\ i + Len(p) - 1 <= Len(s)
    /\ SubSeq(s, i, i + Len(p) - 1) = p

----------------------------------------------------------------------------
(* serde_json on a HashMap<String, String> *)

JsonEscapeChar(c) ==
    IF c = "\"" THEN <<"\\", "\"">>
    ELSE IF c = "\\" THEN <<"\\", "\\">>
    ELSE <<c>>

JsonString(s) == <<"\"">> \o Concat([i \in 1..Len(s) |-> JsonEscapeChar(s[i])]) \o <<"\"">>

\* The keys of a map in the order the serializer visits them (a HashMap's
\* iteration order is unspecified; the parser does not depend on it).
RECURSIVE KeyOrder(_)
KeyOrder(ks) ==
    IF ks = {} THEN <<>>
    ELSE LET k == CHOOSE x \in ks : TRUE IN <<k>> \o KeyOrder(ks \ {k})

RECURSIVE JsonMembers(_, _)
JsonMembers(m, ks) ==
    IF ks = <<>> THEN <<>>
    ELSE JsonString(Head(ks)) \o <<":">> \o JsonString(m[Head(ks)])
         \o (IF Len(ks) > 1 THEN <<",">> ELSE <<>>) \o JsonMembers(m, Tail(ks))

\* serde_json::to_string(&HashMap<String, String>)
JsonToString(m) == <<"{">> \o JsonMembers(m, KeyOrder(DOMAIN m)) \o <<"}">>

EmptyMap == [k \in {} |-> <<>>]

JsonFail == [ok |-> FALSE, val |-> <<>>, next |-> 0]

\* The characters of a JSON string from position i (after the opening quote).
RECURSIVE JsonParseStringBody(_, _, _)
JsonParseStringBody(s, i, acc) ==
    IF i > Len(s) THEN JsonFail
    ELSE IF s[i] = "\"" THEN [ok |-> TRUE, val |-> acc, next |-> i + 1]
    ELSE IF s[i] = "\\"
         THEN IF i + 1 <= Len(s) /\ s[i + 1] \in {"\"", "\\"}
              THEN JsonParseStringBody(s, i + 2, Append(acc, s[i + 1]))
              ELSE JsonFail
    ELSE JsonParseStringBody(s, i + 1, Append(acc, s[i]))

JsonParseString(s, i) ==
    IF i <= Len(s) /\ s[i] = "\"" THEN JsonParseStringBody(s, i + 1, <<>>) ELSE JsonFail

\* The members of an object from position i; a repeated key keeps its last value.
RECURSIVE JsonParseMembers(_, _, _)
JsonParseMembers(s, i, acc) ==
    LET k == JsonParseString(s, i) IN
    IF ~k.ok \/ k.next > Len(s) \/ s[k.next] # ":" THEN [ok |-> FALSE, map |-> EmptyMap]
    ELSE LET v == JsonParseString(s, k.next + 1) IN
         IF ~v.ok \/ v.next > Len(s) THEN [ok |-> FALSE, map |-> EmptyMap]
         ELSE LET acc2 == (k.val :> v.val) @@ acc IN
              IF s[v.next] = "}"
              THEN IF v.next = Len(s) THEN [ok |-> TRUE, map |-> acc2]
                   ELSE [ok |-> FALSE, map |-> EmptyMap]
              ELSE IF s[v.next] = ","
              THEN JsonParseMembers(s, v.next + 1, acc2)
              ELSE [ok |-> FALSE, map |-> EmptyMap]

\* serde_json::from_slice / from_str into a HashMap<String, String>
JsonFromStr(s) ==
    IF Len(s) < 2 \/ s[1] # "{" THEN [ok |-> FALSE, map |-> EmptyMap]
    ELSE IF s[2] = "}"
         THEN [ok |-> Len(s) = 2, map |-> EmptyMap]
    ELSE JsonParseMembers(s, 2, EmptyMap)

----------------------------------------------------------------------------
(* base64::prelude::BASE64_STANDARD *)

Base64Chars ==
    <<"A","B","C","D","E","F","G","H","I","J","K","L","M","N","O","P",
      "Q","R","S","T","U","V","W","X","Y","Z","a","b","c","d","e","f",
      "g","h","i","j","k","l","m","n","o","p","q","r","s","t","u","v",
      "w","x","y","z","0","1","2","3","4","5","6","7","8","9","+","/">>

Base64Char(sextet) == Base64Chars[sextet + 1]

IsBase64Char(c) == \E i \in 1..64 : Base64Chars[i] = c

Base64Sextet(c) == (CHOOSE i \in 1..64 : Base64Chars[i] = c) - 1

\* The bytes of a string (UTF-8 of ASCII characters).
Bytes(s) == [i \in 1..Len(s) |-> Ascii[s[i]]]

RECURSIVE Base64EncodeBytes(_)
Base64EncodeBytes(b) ==
    IF Len(b) = 0 THEN <<>>
    ELSE IF Len(b) = 1
         THEN <<Base64Char(b[1] \div 4), Base64Char((b[1] % 4) * 16), "=", "=">>
    ELSE IF Len(b) = 2
         THEN <<Base64Char(b[1] \div 4),
                Base64Char((b[1] % 4) * 16 + b[2] \div 16),
                Base64Char((b[2] % 16) * 4), "=">>
    ELSE <<Base64Char(b[1] \div 4),
           Base64Char((b[1] % 4) * 16 + b[2] \div 16),
           Base64Char((b[2] % 16) * 4 + b[3] \div 64),
           Base64Char(b[3] % 64)>>
         \o Base64EncodeBytes(SubSeq(b, 4, Len(b)))

\* BASE64_STANDARD.encode(&str)
Base64Encode(s) == Base64EncodeBytes(Bytes(s))

Base64Fail == [ok |-> FALSE, bytes |-> <<>>]

\* BASE64_STANDARD.decode: groups of four characters, canonical padding only in
\* the last group, no non-zero trailing bits.
RECURSIVE Base64DecodeChars(_)
Base64DecodeChars(s) ==
    IF Len(s) = 0 THEN [ok |-> TRUE, bytes |-> <<>>]
    ELSE IF Len(s) < 4 \/ ~IsBase64Char(s[1]) \/ ~IsBase64Char(s[2]) THEN Base64Fail
    ELSE LET x1 == Base64Sextet(s[1])
             x2 == Base64Sextet(s[2])
         IN  IF s[3] = "=" /\ s[4] = "="
             THEN IF Len(s) = 4 /\ x2 % 16 = 0
                  THEN [ok |-> TRUE, bytes |-> <<x1 * 4 + x2 \div 16>>]
                  ELSE Base64Fail
             ELSE IF ~IsBase64Char(s[3]) THEN Base64Fail
             ELSE LET x3 == Base64Sextet(s[3]) IN
                  IF s[4] = "="
                  THEN IF Len(s) = 4 /\ x3 % 4 = 0
                       THEN [ok |-> TRUE,
                             bytes |-> <<x1 * 4 + x2 \div 16, (x2 % 16) * 16 + x3 \div 4>>]
                       ELSE Base64Fail
                  ELSE IF ~IsBase64Char(s[4]) THEN Base64Fail
                  ELSE LET rest == Base64DecodeChars(SubSeq(s, 5, Len(s))) IN
                       IF ~rest.ok THEN Base64Fail
                       ELSE [ok |-> TRUE,
                             bytes |-> <<x1 * 4 + x2 \div 16,
                                         (x2 % 16) * 16 + x3 \div 4,
                                         (x3 % 4) * 64 + Base64Sextet(s[4])>>
                                       \o rest.bytes]

Base64Decode(s) == Base64DecodeChars(s)

\* The text of decoded bytes.
Chars(b) == [i \in 1..Len(b) |-> CharOf(b[i])]

----------------------------------------------------------------------------
(* url::Url::parse, on links of a non-special scheme whose host and path hold *)
(* no character the parser would percent-encode and no "." or ".." segment.   *)

SchemeChars ==
    {"a","b","c","d","e","f","g","h","i","j","k","l","m","n","o","p","q","r",
     "s","t","u","v","w","x","y","z","0","1","2","3","4","5","6","7","8","9",
     "+","-","."}

UrlFail == [ok |-> FALSE, host |-> NoneStr, path |-> <<>>, query |-> NoneStr]

UrlParse(link) ==
    LET colon == FindFrom(link, 1, {":"}) IN
    IF colon > Len(link) \/ colon = 1
       \/ \E i \in 1..(colon - 1) : link[i] \notin SchemeChars
    THEN UrlFail
    ELSE LET hasAuthority == StartsWithAt(link, colon + 1, <<"/", "/">>)
             hostStart == IF hasAuthority THEN colon + 3 ELSE colon + 1
             hostEnd == IF hasAuthority
                        THEN FindFrom(link, hostStart, {"/", "?", "#"})
                        ELSE hostStart
             pathEnd == FindFrom(link, hostEnd, {"?", "#"})
             queryEnd == FindFrom(link, pathEnd + 1, {"#"})
             hostStr == Slice(link, hostStart, hostEnd - 1)
         IN  [ok |-> TRUE,
              host |-> IF hasAuthority /\ hostStr # <<>> THEN hostStr ELSE NoneStr,
              path |-> Slice(link, hostEnd, pathEnd - 1),
              query |-> IF pathEnd <= Len(link) /\ link[pathEnd] = "?"
                        THEN Slice(link, pathEnd + 1, queryEnd - 1)
                        ELSE NoneStr]

----------------------------------------------------------------------------
(* The callback-URI codec: os_impl/windows/builder.rs *)

ActDefault == [kind |-> "Default", id |-> <<>>]
ActDismiss == [kind |-> "Dismiss", id |-> <<>>]
ActOther(a) == [kind |-> "Other", id |-> a]

DEFAULT_TOKEN == <<"_","_","d","e","f","a","u","l","t","_","_">>
DISMISS_TOKEN == <<"_","_","d","i","s","m","i","s","s","_","_">>

\* The action token encode_deeplink writes into the path.
ActionString(action) ==
    IF action.kind = "Default" THEN DEFAULT_TOKEN
    ELSE IF action.kind = "Dismiss" THEN DISMISS_TOKEN
    ELSE action.id

\* encode_deeplink(scheme, &NotifyResponse): "{scheme}://{id}/{action}?{base64(json)}"
encode_deeplink(scheme, resp) ==
    scheme \o <<":", "/", "/">> \o resp.notification_id \o <<"/">>
    \o ActionString(resp.action) \o <<"?">>
    \o Base64Encode(JsonToString(resp.user_metadata))

\* The action decode_deeplink reads from url.path().
PathAction(path) ==
    IF path = <<"/">> \o DEFAULT_TOKEN THEN ActDefault
    ELSE IF path = <<"/">> \o DISMISS_TOKEN THEN ActDismiss
    ELSE ActOther(path)

DecodeErr(e) ==
    [ok |-> FALSE, err |-> e, notification_id |-> <<>>, action |-> ActDefault,
     user_input |-> NoneStr, user_metadata |-> EmptyMap]

\* decode_deeplink(link) -> Result<NotifyResponse, Error>
decode_deeplink(link) ==
    LET url == UrlParse(link) IN
    IF ~url.ok THEN DecodeErr("UrlParse")
    ELSE LET b64 == IF url.query = NoneStr THEN [ok |-> TRUE, bytes |-> <<>>]
                    ELSE Base64Decode(url.query)
             json == IF url.query = NoneStr THEN [ok |-> TRUE, map |-> EmptyMap]
                     ELSE JsonFromStr(Chars(b64.bytes))
         IN  IF ~b64.ok THEN DecodeErr("Base64Decode")
             ELSE IF ~json.ok THEN DecodeErr("FailedToParseUserInfo")
             ELSE [ok |-> TRUE, err |-> None,
                   notification_id |-> IF url.host = NoneStr THEN <<>> ELSE url.host,
                   action |-> PathAction(url.path),
                   user_input |-> NoneStr,
                   user_metadata |-> json.map]

----------------------------------------------------------------------------
(* quick_xml::escape *)

XmlEscapeChar(c) ==
    IF c = "&" THEN <<"&", "a", "m", "p", ";">>
    ELSE IF c = "<" THEN <<"&", "l", "t", ";">>
    ELSE IF c = ">" THEN <<"&", "g", "t", ";">>
    ELSE IF c = "'" THEN <<"&", "a", "p", "o", "s", ";">>
    ELSE IF c = "\"" THEN <<"&", "q", "u", "o", "t", ";">>
    ELSE <<c>>

\* quick_xml::escape::escape
XmlEscape(s) == Concat([i \in 1..Len(s) |-> XmlEscapeChar(s[i])])

XmlEntity(name) ==
    IF name = <<"a", "m", "p">> THEN "&"
    ELSE IF name = <<"l", "t">> THEN "<"
    ELSE IF name = <<"g", "t">> THEN ">"
    ELSE IF name = <<"a", "p", "o", "s">> THEN "'"
    ELSE IF name = <<"q", "u", "o", "t">> THEN "\""
    ELSE None

\* quick_xml::escape::unescape: every "&name;" is replaced; an "&" with no ";"
\* after it, or an unknown name, is an EscapeError.
RECURSIVE XmlUnescapeFrom(_, _, _)
XmlUnescapeFrom(s, i, acc) ==
    IF i > Len(s) THEN [ok |-> TRUE, val |-> acc]
    ELSE IF s[i] # "&" THEN XmlUnescapeFrom(s, i + 1, Append(acc, s[i]))
    ELSE LET semi == FindFrom(s, i + 1, {";"}) IN
         IF semi > Len(s) \/ XmlEntity(Slice(s, i + 1, semi - 1)) = None
         THEN [ok |-> FALSE, val |-> <<>>]
         ELSE XmlUnescapeFrom(s, semi + 1, Append(acc, XmlEntity(Slice(s, i + 1, semi - 1))))

XmlUnescape(s) == XmlUnescapeFrom(s, 1, <<>>)

----------------------------------------------------------------------------
(* The managers: threads, handlers, categories *)

MainThread == "main"
Threads == {"main", "worker"}

Mgrs == {"m1", "m2"}
Handlers == {"h1", "h2"}
AppIds == {"app1"}
Protocols == {NoneStr, <<"a", "p", "p">>}

\* NotifyCategory values: an identifier and its actions
CatX == [identifier |-> <<"X">>,
         actions |-> <<[type |-> "Action", identifier |-> <<"o", "k">>]>>]
CatY == [identifier |-> <<"Y">>,
         actions |-> <<[type |-> "TextInputAction",
                        identifier |-> <<"r", "e", "p", "l", "y">>]>>]
CategoryLists == {<<>>, <<CatX>>, <<CatY>>}

\* The values of NotifyBuilder the adapters read
Builders ==
    {[category_id |-> NoneStr, user_metadata |-> NoneMap],
     [category_id |-> <<"X">>, user_metadata |-> (<<"k">> :> <<"v">>)],
     [category_id |-> <<"Y">>, user_metadata |-> NoneMap]}

\* How many notifications may be sent, and how many user interactions may happen.
MaxSends == 1
MaxEvents == 1

\* How many notifications a manager may send while its register runs step by step.
MaxLockSends == 2

\* NOTIFICATION_RESPONSE_CHANNEL_SIZE
NOTIFICATION_RESPONSE_CHANNEL_SIZE == 10

HexDigits == <<"1", "2", "3", "4", "5", "6", "7", "8", "9", "a", "b", "c", "d", "e", "f">>

\* The n-th identifier the uuid generator gives.
NotifId(n) == <<"4", HexDigits[n]>>

Last(op, m, t, res, ret) == [op |-> op, m |-> m, t |-> t, res |-> res, ret |-> ret]

\* A manager that has not been constructed.
NoManager ==
    [creator |-> None, bundle_id |-> FALSE, app_id |-> None, protocol |-> NoneStr,
     inner |-> None]

NoListener == [pc |-> "none", handler |-> None, active |-> 0]

SysInit ==
    /\ platform \in {"A", "B"}
    /\ bundle \in (IF platform = "A" THEN BOOLEAN ELSE {TRUE})
    /\ mgr = [m \in Mgrs |-> NoManager]
    /\ handlerCell = [m \in Mgrs |-> None]
    /\ categories = [m \in Mgrs |-> EmptyMap]
    /\ delegateRef = [m \in Mgrs |-> FALSE]
    /\ listener = [m \in Mgrs |-> NoListener]
    /\ chan = [m \in Mgrs |-> <<>>]
    /\ centerDelegate = None
    /\ centerCategories = {}
    /\ toasts = EmptyMap
    /\ pending = <<>>
    /\ calls = <<>>
    /\ nSent = 0
    /\ nEvents = 0
    /\ dropped = {}
    /\ completed = EmptyMap
    /\ registered = {}
    /\ authorization = "NotDetermined"
    /\ prompts = 0
    /\ cleared = "no"
    /\ given = EmptyMap
    /\ last = Last("init", None, None, None, None)

----------------------------------------------------------------------------
(* Construction *)

\* macos NotifyManager::new_(): the bundle identifier is read and cached, if any.
New_(m, t) ==
    /\ platform = "A"
    /\ mgr[m] = NoManager
    /\ mgr' = [mgr EXCEPT ![m] = [creator |-> t, bundle_id |-> bundle,
                                  app_id |-> None, protocol |-> NoneStr, inner |-> m]]
    /\ last' = Last("new_", m, t, "Ok", None)
    /\ UNCHANGED <<codecVars, completed, permVars, cleared, given,
                   registered, dropped, platform, bundle, handlerCell,
                   categories, delegateRef, listener, chan, centerDelegate,
                   centerCategories, toasts, pending, calls, nSent, nEvents>>

\* macos NotifyManager::try_new
TryNewA(m, t) ==
    /\ platform = "A"
    /\ mgr[m] = NoManager
    /\ IF ~bundle
       THEN /\ last' = Last("try_new", m, t, "NoBundleId", None)
            /\ UNCHANGED mgr
       ELSE /\ mgr' = [mgr EXCEPT ![m] = [creator |-> t, bundle_id |-> bundle,
                                          app_id |-> None, protocol |-> NoneStr,
                                          inner |-> m]]
            /\ last' = Last("try_new", m, t, "Ok", None)
    /\ UNCHANGED <<codecVars, completed, permVars, cleared, given,
                   registered, dropped, platform, bundle, handlerCell,
                   categories, delegateRef, listener, chan, centerDelegate,
                   centerCategories, toasts, pending, calls, nSent, nEvents>>

\* windows NotifyManager::try_new: notifierOk is whether CreateToastNotifierWithId succeeds.
TryNewB(m, t, app, protocol, notifierOk) ==
    /\ platform = "B"
    /\ mgr[m] = NoManager
    /\ IF ~notifierOk
       THEN /\ last' = Last("try_new", m, t, "Other", None)
            /\ UNCHANGED mgr
       ELSE /\ mgr' = [mgr EXCEPT ![m] = [creator |-> None, bundle_id |-> TRUE,
                                          app_id |-> app, protocol |-> protocol,
                                          inner |-> m]]
            /\ last' = Last("try_new", m, t, "Ok", None)
    /\ UNCHANGED <<codecVars, completed, permVars, cleared, given,
                   registered, dropped, platform, bundle, handlerCell,
                   categories, delegateRef, listener, chan, centerDelegate,
                   centerCategories, toasts, pending, calls, nSent, nEvents>>

\* A clone of manager m, held as c. On Adapter A NotifyManager derives Clone and
\* the clone holds the same Arc<NotifyManagerInner>; on Adapter B the manager is
\* shared as an Arc. Either way c has the cells of m: inner names them.
Clone(m, c, t) ==
    /\ mgr[m] # NoManager
    /\ mgr[c] = NoManager
    /\ mgr' = [mgr EXCEPT ![c] = mgr[m]]
    /\ last' = Last("clone", c, t, "Ok", None)
    /\ UNCHANGED <<codecVars, completed, permVars, cleared, given,
                   registered, dropped, platform, bundle, handlerCell,
                   categories, delegateRef, listener, chan, centerDelegate,
                   centerCategories, toasts, pending, calls, nSent, nEvents>>

----------------------------------------------------------------------------
(* The permission operations *)

PermissionOps == {"get_notification_permission_state",
                  "first_time_ask_for_notification_permission"}

\* NotifyManager::is_authorization_status_granted
is_authorization_status_granted(status) ==
    status \in {"Authorized", "Provisional", "Ephemeral"}

\* The null error pointer, and the NSError with which the OS reports that
\* notifications are not allowed for the application: UNErrorDomain, code 1.
NoError == [domain |-> None, code |-> 0, description |-> <<>>]
NotAllowedError ==
    [domain |-> "UNErrorDomain", code |-> 1,
     description |-> <<"n", "o", "t", " ", "a", "l", "l", "o", "w", "e", "d">>]

\* Other errors a completion handler can be called with.
OtherErrors ==
    {[domain |-> "NSCocoaErrorDomain", code |-> 1,
      description |-> <<"d", "i", "s", "a", "l", "l", "o", "w", "e", "d">>],
     [domain |-> "NSCocoaErrorDomain", code |-> 1,
      description |-> <<"d", "e", "n", "i", "e", "d">>],
     [domain |-> "UNErrorDomain", code |-> 2,
      description |-> <<"n", "o", "t", " ", "a", "l", "l", "o", "w", "e", "d">>]}

\* str::contains
Contains(s, p) == \E i \in 1..Len(s) : StartsWithAt(s, i, p)

\* An authorization handler that takes every error with code 1 for the user's
\* refusal.
create_authorization_handler_AnyCodeOne(authorized, error) ==
    IF error = NoError THEN (IF authorized THEN "true" ELSE "false")
    ELSE IF error.code = 1 THEN "false"
    ELSE "NSError"

\* An authorization handler that returns every error it is called with.
create_authorization_handler_NoRemap(authorized, error) ==
    IF error = NoError THEN (IF authorized THEN "true" ELSE "false")
    ELSE "NSError"

\* The block of create_authorization_handler: the result it sends when it is called
\* with (authorized, error).
create_authorization_handler(authorized, error) ==
    IF error = NoError THEN (IF authorized THEN "true" ELSE "false")
    ELSE IF error.code = 1 /\ Contains(error.description, <<"a", "l", "l", "o", "w", "e", "d">>)
         THEN "false"
    ELSE "NSError"

\* What the OS calls the authorization handler with when the user's decision is
\* status.
ReportsOf(status) ==
    IF status = "Authorized" THEN {[authorized |-> TRUE, error |-> NoError]}
    ELSE IF status = "Denied"
         THEN {[authorized |-> FALSE, error |-> NoError],
               [authorized |-> FALSE, error |-> NotAllowedError]}
    ELSE {}

\* What the OS does with a permission operation: whether it calls the completion
\* handler or releases it, whether it prompts the user, the user's decision
\* afterwards, and what the handler is called with. The settings are read as
\* they are. For an authorization request the
\* user is asked when no decision has been made, and the decision is reported; or
\* the request fails with another error and nothing is decided.
PermissionOutcomes(op) ==
    IF op = "get_notification_permission_state"
    THEN {[called |-> c, prompted |-> FALSE, decision |-> authorization,
           authorized |-> is_authorization_status_granted(authorization),
           error |-> NoError] : c \in BOOLEAN}
    ELSE UNION {{[called |-> c, prompted |-> authorization = "NotDetermined",
                  decision |-> d, authorized |-> r.authorized,
                  error |-> r.error] : c \in BOOLEAN, r \in ReportsOf(d)} :
                   d \in (IF authorization = "NotDetermined"
                          THEN {"Authorized", "Denied"} ELSE {authorization})}
         \cup {[called |-> TRUE, prompted |-> FALSE, decision |-> authorization,
                authorized |-> FALSE, error |-> e] : e \in OtherErrors}

\* macos get_notification_permission_state and
\* first_time_ask_for_notification_permission: the bundle identifier is checked,
\* then the notification center is asked and the call awaits the completion
\* handler. Neither reads the calling thread.
PermissionA(m, t, op, outcome) ==
    /\ platform = "A"
    /\ mgr[m] # NoManager
    /\ outcome \in PermissionOutcomes(op)
    /\ IF ~mgr[m].bundle_id
       THEN /\ last' = Last(op, m, t, "NoBundleId", None)
            /\ UNCHANGED permVars
       ELSE /\ authorization' = outcome.decision
            /\ prompts' = IF outcome.prompted THEN prompts + 1 ELSE prompts
            /\ last' = Last(op, m, t,
                            IF ~outcome.called THEN "TokioRecv"
                            ELSE IF op = "get_notification_permission_state"
                                 THEN (IF outcome.authorized THEN "true" ELSE "false")
                            ELSE create_authorization_handler(outcome.authorized,
                                                              outcome.error),
                            outcome)
    /\ UNCHANGED <<codecVars, completed, cleared, given,
                   registered, dropped, platform, bundle, mgr, handlerCell,
                   categories, delegateRef, listener, chan, centerDelegate, centerCategories,
                   toasts, pending, calls, nSent, nEvents>>

\* windows get_notification_permission_state and
\* first_time_ask_for_notification_permission: Ok(true).
PermissionB(m, t, op) ==
    /\ platform = "B"
    /\ mgr[m] # NoManager
    /\ last' = Last(op, m, t, "true", None)
    /\ UNCHANGED <<codecVars, completed, permVars, cleared, given,
                   registered, dropped, platform, bundle, mgr, handlerCell,
                   categories, delegateRef, listener, chan, centerDelegate, centerCategories,
                   toasts, pending, calls, nSent, nEvents>>

----------------------------------------------------------------------------
(* Adapter B: subscriptions and register *)

\* NotifyManager::user_info_from_toast: the UserInfoJson value, unescaped and parsed.
user_info_from_toast(toast) ==
    IF toast.data = NoneStr THEN [ok |-> FALSE, map |-> EmptyMap]
    ELSE LET text == XmlUnescape(toast.data) IN
         IF ~text.ok THEN [ok |-> FALSE, map |-> EmptyMap]
         ELSE JsonFromStr(text.val)

\* Closures that capture no notification id.
Subscription_EmptyId(m, toast) ==
    [mgr |-> m,
     notification_id |-> <<>>,
     user_info |-> IF user_info_from_toast(toast).ok
                   THEN user_info_from_toast(toast).map
                   ELSE EmptyMap,
     protocol |-> mgr[m].protocol]

\* What the two closures of register_event_listeners capture.
Subscription(m, toast) ==
    [mgr |-> m,
     notification_id |-> toast.tag,
     user_info |-> IF user_info_from_toast(toast).ok
                   THEN user_info_from_toast(toast).map
                   ELSE EmptyMap,
     protocol |-> mgr[m].protocol]

ListenerOutcomes == {"both", "activation", "none"}

\* Listeners that attach the activation subscription only.
register_event_listeners_ActivationOnly(m, toast, outcome) ==
    [toast EXCEPT !.asubs = Append(@, Subscription(m, toast))]

\* NotifyManager::register_event_listeners on one toast. The outcome is how far the
\* native calls got: Tag or Activated failed ("none"), Dismissed failed
\* ("activation"), or both subscriptions were attached.
register_event_listeners(m, toast, outcome) ==
    [toast EXCEPT
        !.asubs = IF outcome \in {"both", "activation"}
                  THEN Append(@, Subscription(m, toast)) ELSE @,
        !.dsubs = IF outcome = "both" THEN Append(@, Subscription(m, toast)) ELSE @]

\* The toasts GetHistoryWithId(app_id) returns.
HistoryOf(app) == {n \in DOMAIN toasts : toasts[n].app = app}

\* NotifyManager::store_categories: the map is cleared, then each category is inserted.
RECURSIVE InsertAll(_, _)
InsertAll(map, cats) ==
    IF cats = <<>> THEN map
    ELSE InsertAll((Head(cats).identifier :> Head(cats)) @@ map, Tail(cats))

store_categories(cats) == InsertAll(EmptyMap, cats)

\* A walk over the history that ends at the first toast whose subscriptions could
\* not be attached.
register_historical_notifications_StopAtFirst(m, outcomes) ==
    [n \in DOMAIN toasts |->
        IF n \in DOMAIN outcomes /\ \A k \in DOMAIN outcomes : k < n => outcomes[k] = "both"
        THEN register_event_listeners(m, toasts[n], outcomes[n])
        ELSE toasts[n]]

\* NotifyManager::register_historical_notifications, given each toast's outcome.
register_historical_notifications(m, outcomes) ==
    [n \in DOMAIN toasts |->
        IF n \in DOMAIN outcomes
        THEN register_event_listeners(m, toasts[n], outcomes[n])
        ELSE toasts[n]]

\* A register that replaces the handler and the categories of a manager that
\* already has them, which the write-once cell rules out.
RegisterB_Replacing(m, t, h, cats, historyOk, outcomes) ==
    /\ platform = "B"
    /\ mgr[m] # NoManager
    /\ handlerCell' = [handlerCell EXCEPT ![m] = h]
    /\ categories' = [categories EXCEPT ![m] = store_categories(cats)]
    /\ registered' = registered \cup {m}
    /\ last' = Last("register", m, t, "Ok", None)
    /\ UNCHANGED <<codecVars, completed, permVars, cleared, given,
                   dropped, platform, bundle, mgr, delegateRef, listener, chan,
                   centerDelegate, centerCategories, toasts, pending, calls, nSent, nEvents>>

\* windows NotifyManager::register. historyOk is whether get_history succeeds.
RegisterB(m, t, h, cats, historyOk, outcomes) ==
    /\ platform = "B"
    /\ mgr[m] # NoManager
    /\ IF handlerCell[m] # None
       THEN /\ last' = Last("register", m, t, "SettingHandler", None)
            /\ UNCHANGED <<handlerCell, categories, toasts, registered>>
       ELSE /\ handlerCell' = [handlerCell EXCEPT ![m] = h]
            /\ categories' = [categories EXCEPT ![m] = store_categories(cats)]
            /\ IF ~historyOk
               THEN /\ last' = Last("register", m, t, "Windows", None)
                    /\ UNCHANGED <<toasts, registered>>
               ELSE /\ toasts' = register_historical_notifications(m, outcomes)
                    /\ registered' = registered \cup {m}
                    /\ last' = Last("register", m, t, "Ok", None)
    /\ UNCHANGED <<codecVars, completed, permVars, cleared, given,
                   dropped, platform, bundle, mgr, delegateRef, listener, chan,
                   centerDelegate, centerCategories, pending, calls, nSent, nEvents>>

RemoveAt(q, i) == SubSeq(q, 1, i - 1) \o SubSeq(q, i + 1, Len(q))

\* A read of the category map that does not wait for the lock.
CategoriesReadable_NoLock(m) == TRUE

\* self.categories.read() in generate_actions_xml returns: no register of the
\* manager holds the write guard of store_categories.
CategoriesReadable(m) ==
    \A i \in 1..Len(pending) :
       (pending[i].kind = "store" /\ pending[i].m = m) => pending[i].stage = "wait"

\* windows NotifyManager::register up to the write lock of store_categories: the
\* handler cell is set, or the call fails because it is set already.
RegisterStartB(m, t, h, cats) ==
    /\ platform = "B"
    /\ mgr[m] # NoManager
    /\ IF handlerCell[m] # None
       THEN /\ last' = Last("register", m, t, "SettingHandler", None)
            /\ UNCHANGED <<handlerCell, pending>>
       ELSE /\ handlerCell' = [handlerCell EXCEPT ![m] = h]
            /\ pending' = Append(pending, [kind |-> "store", m |-> m, t |-> t,
                                           stage |-> "wait", left |-> cats])
            /\ last' = Last("register", m, t, "Storing", None)
    /\ UNCHANGED <<codecVars, completed, permVars, cleared, given, registered, dropped, platform,
                   bundle, mgr, categories, delegateRef, listener, chan, centerDelegate,
                   centerCategories, toasts, calls, nSent, nEvents>>

\* The next step of a register in store_categories: the write guard is taken, the
\* map is cleared, one category is inserted, or, all being inserted, the guard
\* is released and register goes through the history and returns.
StoreCategoriesStep(i, historyOk, outcomes) ==
    /\ i \in 1..Len(pending)
    /\ pending[i].kind = "store"
    /\ LET p == pending[i] IN
       IF p.stage = "wait"
       THEN /\ pending' = [pending EXCEPT ![i].stage = "locked"]
            /\ last' = Last("store_categories", p.m, p.t, "locked", None)
            /\ UNCHANGED <<categories, toasts, registered>>
       ELSE IF p.stage = "locked"
       THEN /\ categories' = [categories EXCEPT ![p.m] = EmptyMap]
            /\ pending' = [pending EXCEPT ![i].stage = "insert"]
            /\ last' = Last("store_categories", p.m, p.t, "cleared", None)
            /\ UNCHANGED <<toasts, registered>>
       ELSE IF p.left # <<>>
       THEN /\ categories' = [categories EXCEPT
                                 ![p.m] = (Head(p.left).identifier :> Head(p.left)) @@ @]
            /\ pending' = [pending EXCEPT ![i].left = Tail(@)]
            /\ last' = Last("store_categories", p.m, p.t, "inserted", None)
            /\ UNCHANGED <<toasts, registered>>
       ELSE /\ pending' = RemoveAt(pending, i)
            /\ UNCHANGED categories
            /\ IF ~historyOk
               THEN /\ last' = Last("register", p.m, p.t, "Windows", None)
                    /\ UNCHANGED <<toasts, registered>>
               ELSE /\ toasts' = register_historical_notifications(p.m, outcomes)
                    /\ registered' = registered \cup {p.m}
                    /\ last' = Last("register", p.m, p.t, "Ok", None)
    /\ UNCHANGED <<codecVars, completed, permVars, cleared, given, dropped, platform, bundle, mgr,
                   handlerCell, delegateRef, listener, chan, centerDelegate,
                   centerCategories, calls, nSent, nEvents>>

----------------------------------------------------------------------------
(* Adapter A: register *)

\* A register that takes any calling thread for the main thread.
RegisterA_AnyThread(m, t, h, cats) ==
    /\ platform = "A"
    /\ mgr[m] # NoManager
    /\ IF delegateRef[m]
       THEN /\ last' = Last("register", m, t, "MultipleRegisterCalls", None)
            /\ centerDelegate' = None
            /\ UNCHANGED <<delegateRef, listener, centerCategories, registered>>
       ELSE /\ delegateRef' = [delegateRef EXCEPT ![m] = TRUE]
            /\ centerDelegate' = m
            /\ centerCategories' = {cats[i].identifier : i \in 1..Len(cats)}
            /\ listener' = [listener EXCEPT ![m] = [pc |-> "recv", handler |-> h, active |-> 0]]
            /\ registered' = registered \cup {m}
            /\ last' = Last("register", m, t, "Ok", None)
    /\ UNCHANGED <<codecVars, completed, permVars, cleared, given,
                   dropped, platform, bundle, mgr, handlerCell, categories, chan,
                   toasts, pending, calls, nSent, nEvents>>

\* macos NotifyManager::register.
\*  - off the main thread MainThreadMarker::new() is None;
\*  - the new delegate is set on the notification center before delegate_reference
\*    is written; the center holds it weakly, so when the write fails (or panics)
\*    and the delegate is released, the center is left without a delegate;
\*  - delegate_reference is a SendWrapper: reading it on a thread other than the
\*    one that constructed the manager panics.
RegisterA(m, t, h, cats) ==
    /\ platform = "A"
    /\ mgr[m] # NoManager
    /\ IF t # MainThread
       THEN /\ last' = Last("register", m, t, "NotMainThread", None)
            /\ UNCHANGED <<delegateRef, listener, centerDelegate, centerCategories, registered>>
       ELSE IF mgr[m].creator # t
       THEN /\ last' = Last("register", m, t, "Panic", None)
            /\ centerDelegate' = None
            /\ UNCHANGED <<delegateRef, listener, centerCategories, registered>>
       ELSE IF delegateRef[m]
       THEN /\ last' = Last("register", m, t, "MultipleRegisterCalls", None)
            /\ centerDelegate' = None
            /\ UNCHANGED <<delegateRef, listener, centerCategories, registered>>
       ELSE /\ delegateRef' = [delegateRef EXCEPT ![m] = TRUE]
            /\ centerDelegate' = m
            /\ centerCategories' = {cats[i].identifier : i \in 1..Len(cats)}
            /\ listener' = [listener EXCEPT ![m] = [pc |-> "recv", handler |-> h, active |-> 0]]
            /\ registered' = registered \cup {m}
            /\ last' = Last("register", m, t, "Ok", None)
    /\ UNCHANGED <<codecVars, completed, permVars, cleared, given,
                   dropped, platform, bundle, mgr, handlerCell, categories,
                   chan, toasts, pending, calls, nSent, nEvents>>

----------------------------------------------------------------------------
(* Adapter B: send *)

\* NotifyManager::serialize_user_metadata
serialize_user_metadata(user_metadata) ==
    IF user_metadata = NoneMap THEN <<"{", "}">> ELSE JsonToString(user_metadata)

UnwrapOrDefault(user_metadata) == IF user_metadata = NoneMap THEN EmptyMap ELSE user_metadata

\* The value the OS reads back from an XML attribute written with escape().
XmlAttribute(s) == XmlUnescape(XmlEscape(s)).val

\* Action markup that gives an unknown category a button of its own.
generate_actions_xml_UnknownButton(m, category_id) ==
    IF category_id \in DOMAIN categories[m]
    THEN LET acts == categories[m][category_id].actions IN
         [i \in 1..Len(acts) |->
            [arguments |-> XmlAttribute(acts[i].identifier),
             input |-> acts[i].type = "TextInputAction"]]
    ELSE <<[arguments |-> category_id, input |-> FALSE]>>

\* NotifyManager::generate_actions_xml: the action elements of the category, if the
\* map holds it; each action's arguments attribute is its identifier.
generate_actions_xml(m, category_id) ==
    IF category_id \in DOMAIN categories[m]
    THEN LET acts == categories[m][category_id].actions IN
         [i \in 1..Len(acts) |->
            [arguments |-> XmlAttribute(acts[i].identifier),
             input |-> acts[i].type = "TextInputAction"]]
    ELSE <<>>

\* build_toast_xml and configure_toast_notification: the toast object send creates.
create_toast_notification(m, builder, notification_id, user_metadata_string) ==
    [tag |-> notification_id,
     app |-> mgr[m].app_id,
     data |-> user_metadata_string,
     userInfo |-> EmptyMap,
     category |-> NoneStr,
     launch |-> IF mgr[m].protocol # NoneStr
                THEN encode_deeplink(mgr[m].protocol,
                        [notification_id |-> notification_id, action |-> ActDefault,
                         user_input |-> NoneStr,
                         user_metadata |-> UnwrapOrDefault(builder.user_metadata)])
                ELSE NoneStr,
     actions |-> IF builder.category_id # NoneStr
                 THEN generate_actions_xml(m, builder.category_id)
                 ELSE <<>>,
     asubs |-> <<>>,
     dsubs |-> <<>>]

create_notification_handle_NoDefault(builder, notification_id) ==
    [id |-> notification_id, user_metadata |-> builder.user_metadata]

\* NotifyManager::create_notification_handle
create_notification_handle(builder, notification_id) ==
    [id |-> notification_id, user_metadata |-> UnwrapOrDefault(builder.user_metadata)]

SendOutcomes == {"ok", "fail_build", "fail_listen", "fail_show"}

\* windows NotifyManager::send. native is how far the native calls got: the toast
\* could not be built, a subscription could not be attached, Show failed, or all
\* succeeded.
SendB(m, t, builder, native) ==
    /\ platform = "B"
    /\ mgr[m] # NoManager
    /\ nSent' = nSent + 1
    /\ LET notification_id == NotifId(nSent + 1)
           toast == create_toast_notification(m, builder, notification_id,
                        serialize_user_metadata(builder.user_metadata))
       IN  IF native = "ok"
           THEN /\ toasts' = ((nSent + 1) :> register_event_listeners(m, toast, "both"))
                             @@ toasts
                /\ given' = (notification_id :> UnwrapOrDefault(builder.user_metadata))
                            @@ given
                /\ last' = Last("send", m, t, "Ok",
                                create_notification_handle(builder, notification_id))
           ELSE /\ last' = Last("send", m, t,
                                IF native = "fail_build" THEN "Other" ELSE "Windows", None)
                /\ UNCHANGED <<toasts, given>>
    /\ cleared' = "no"
    /\ UNCHANGED <<codecVars, completed, permVars,
                   registered, dropped, platform, bundle, mgr, handlerCell,
                   categories, delegateRef, listener, chan, centerDelegate,
                   centerCategories, pending, calls, nEvents>>

----------------------------------------------------------------------------
(* Adapter B: interactions *)

DismissalReasons == {"UserCanceled", "ApplicationHidden", "TimedOut", "Unreadable"}

\* The strings an activation of the toast can carry: a tap on the body gives the
\* launch attribute (empty when there is none), a button its arguments.
ActivationArguments(toast) ==
    {toast.launch} \cup {toast.actions[i].arguments : i \in 1..Len(toast.actions)}

Without(f, n) == [x \in (DOMAIN f) \ {n} |-> f[x]]

\* The text of ToastActivatedEventArgs: what the user typed into the input box of
\* the action whose button they pressed, and nothing for a tap or a plain button.
TypedText == <<"h", "i">>
UserInputOf(toast, arg) ==
    IF \E i \in 1..Len(toast.actions) :
          toast.actions[i].arguments = arg /\ toast.actions[i].input
    THEN TypedText
    ELSE NoneStr

\* The user activates toast n: the OS fires every activation subscription on it.
UserActivates(n, arg) ==
    /\ platform = "B"
    /\ n \in DOMAIN toasts
    /\ pending = <<>>
    /\ nEvents < MaxEvents
    /\ arg \in ActivationArguments(toasts[n])
    /\ nEvents' = nEvents + 1
    /\ pending' = [i \in 1..Len(toasts[n].asubs) |->
                      [kind |-> "activated", ev |-> nEvents + 1,
                       sub |-> toasts[n].asubs[i], arg |-> arg,
                       text |-> UserInputOf(toasts[n], arg)]]
    /\ toasts' = Without(toasts, n)
    /\ last' = Last("user_activates", None, None, None, nEvents + 1)
    /\ UNCHANGED <<codecVars, completed, permVars, cleared, given,
                   registered, dropped, platform, bundle, mgr, handlerCell,
                   categories, delegateRef, listener, chan, centerDelegate,
                   centerCategories, calls, nSent>>

\* Toast n is dismissed: the OS fires every dismissal subscription on it. A toast
\* that timed out stays in the history.
ToastDismissed(n, reason) ==
    /\ platform = "B"
    /\ n \in DOMAIN toasts
    /\ pending = <<>>
    /\ nEvents < MaxEvents
    /\ nEvents' = nEvents + 1
    /\ pending' = [i \in 1..Len(toasts[n].dsubs) |->
                      [kind |-> "dismissed", ev |-> nEvents + 1,
                       sub |-> toasts[n].dsubs[i], arg |-> reason]]
    /\ toasts' = IF reason \in {"UserCanceled", "ApplicationHidden"}
                 THEN Without(toasts, n) ELSE toasts
    /\ last' = Last("toast_dismissed", None, None, None, nEvents + 1)
    /\ UNCHANGED <<codecVars, completed, permVars, cleared, given,
                   registered, dropped, platform, bundle, mgr, handlerCell,
                   categories, delegateRef, listener, chan, centerDelegate,
                   centerCategories, calls, nSent>>

\* A closure that takes an activation string it cannot decode for a tap on the body.
ActivationAction_DefaultOnError(protocol, arg) ==
    IF arg = NoneStr THEN ActDefault
    ELSE IF protocol # NoneStr
         THEN IF decode_deeplink(arg).ok THEN decode_deeplink(arg).action ELSE ActDefault
    ELSE ActOther(arg)

\* The action the activation closure hands to the handler.
ActivationAction(protocol, arg) ==
    IF arg = NoneStr THEN ActDefault
    ELSE IF protocol # NoneStr
         THEN IF decode_deeplink(arg).ok THEN decode_deeplink(arg).action ELSE ActOther(arg)
    ELSE ActOther(arg)

Response(ev, notification_id, action, user_input, user_metadata) ==
    [ev |-> ev, notification_id |-> notification_id, action |-> action,
     user_input |-> user_input, user_metadata |-> user_metadata]

Invocation(m, h, resp) == [mgr |-> m, handler |-> h, resp |-> resp]

\* An activation closure that keeps the interaction for later when the manager has
\* no handler yet.
ActivatedCallback_KeepsForLater ==
    /\ pending # <<>>
    /\ Head(pending).kind = "activated"
    /\ LET cb == Head(pending)
           h == handlerCell[cb.sub.mgr]
       IN  /\ calls' = IF h # None
                       THEN Append(calls, Invocation(cb.sub.mgr, h,
                                Response(cb.ev, cb.sub.notification_id,
                                         ActivationAction(cb.sub.protocol, cb.arg),
                                         NoneStr, cb.sub.user_info)))
                       ELSE calls
           /\ last' = Last("activated", cb.sub.mgr, None,
                           IF h # None THEN "invoked" ELSE "no_handler", cb.ev)
           /\ pending' = IF h # None THEN Tail(pending) ELSE pending
    /\ UNCHANGED <<codecVars, completed, permVars, cleared, given,
                   registered, dropped, platform, bundle, mgr, handlerCell,
                   categories, delegateRef, listener, chan, centerDelegate,
                   centerCategories, toasts, nSent, nEvents>>

\* The closure of create_activation_handler runs.
ActivatedCallback ==
    /\ pending # <<>>
    /\ Head(pending).kind = "activated"
    /\ LET cb == Head(pending)
           h == handlerCell[cb.sub.mgr]
       IN  /\ calls' = IF h # None
                       THEN Append(calls, Invocation(cb.sub.mgr, h,
                                Response(cb.ev, cb.sub.notification_id,
                                         ActivationAction(cb.sub.protocol, cb.arg),
                                         NoneStr, cb.sub.user_info)))
                       ELSE calls
           /\ last' = Last("activated", cb.sub.mgr, None,
                           IF h # None THEN "invoked" ELSE "no_handler", cb.ev)
    /\ pending' = Tail(pending)
    /\ UNCHANGED <<codecVars, completed, permVars, cleared, given,
                   registered, dropped, platform, bundle, mgr, handlerCell,
                   categories, delegateRef, listener, chan, centerDelegate,
                   centerCategories, toasts, nSent, nEvents>>

\* A closure that forwards every dismissal.
ForwardsDismissal_Any(reason) == TRUE

\* Whether the dismissal closure forwards a dismissal with this reason.
ForwardsDismissal(reason) == reason = "UserCanceled"

\* The closure of create_dismissal_handler runs.
DismissedCallback ==
    /\ pending # <<>>
    /\ Head(pending).kind = "dismissed"
    /\ LET cb == Head(pending)
           h == handlerCell[cb.sub.mgr]
           forwards == ForwardsDismissal(cb.arg) /\ h # None
       IN  /\ calls' = IF forwards
                       THEN Append(calls, Invocation(cb.sub.mgr, h,
                                Response(cb.ev, cb.sub.notification_id, ActDismiss,
                                         NoneStr, cb.sub.user_info)))
                       ELSE calls
           /\ last' = Last("dismissed", cb.sub.mgr, None,
                           IF forwards THEN "invoked"
                           ELSE IF ForwardsDismissal(cb.arg) THEN "no_handler"
                           ELSE "suppressed", cb.ev)
    /\ pending' = Tail(pending)
    /\ UNCHANGED <<codecVars, completed, permVars, cleared, given,
                   registered, dropped, platform, bundle, mgr, handlerCell,
                   categories, delegateRef, listener, chan, centerDelegate,
                   centerCategories, toasts, nSent, nEvents>>

----------------------------------------------------------------------------
(* Adapter A: send *)

BundleSuffix == <<".", "b">>

\* macos builder::build: the request's identifier, userInfo and category; the
\* identifier is "{uuid}.{bundle_id}".
Request(builder, n) ==
    [tag |-> NotifId(n) \o BundleSuffix,
     app |-> None,
     data |-> NoneStr,
     userInfo |-> UnwrapOrDefault(builder.user_metadata),
     category |-> builder.category_id,
     launch |-> NoneStr,
     actions |-> <<>>,
     asubs |-> <<>>,
     dsubs |-> <<>>]

\* The handle made of a native request: its identifier and its userInfo.
HandleOf(request) == [id |-> request.tag, user_metadata |-> request.userInfo]

\* A send that returns the handle build_and_send made without awaiting the
\* completion callback.
SendStartA_NoAwait(m, t, builder) ==
    /\ platform = "A"
    /\ mgr[m] # NoManager
    /\ mgr[m].bundle_id
    /\ nSent' = nSent + 1
    /\ pending' = Append(pending,
                    [kind |-> "completion", m |-> m, t |-> t, n |-> nSent + 1,
                     request |-> Request(builder, nSent + 1)])
    /\ given' = (Request(builder, nSent + 1).tag
                    :> UnwrapOrDefault(builder.user_metadata)) @@ given
    /\ last' = Last("send", m, t, "Ok",
                    [id |-> Request(builder, nSent + 1).tag,
                     user_metadata |-> UnwrapOrDefault(builder.user_metadata)])
    /\ cleared' = "no"
    /\ UNCHANGED <<codecVars, completed, permVars, registered, dropped, platform, bundle, mgr,
                   handlerCell, categories, delegateRef, listener, chan, centerDelegate,
                   centerCategories, toasts, calls, nEvents>>

\* macos NotifyManager::send up to its await: build_and_send builds the request and
\* hands it to the notification center with a completion block. No step checks the
\* calling thread.
SendStartA(m, t, builder) ==
    /\ platform = "A"
    /\ mgr[m] # NoManager
    /\ IF ~mgr[m].bundle_id
       THEN /\ last' = Last("send", m, t, "NoBundleId", None)
            /\ UNCHANGED <<pending, nSent, given>>
       ELSE /\ nSent' = nSent + 1
            /\ pending' = Append(pending,
                            [kind |-> "completion", m |-> m, t |-> t, n |-> nSent + 1,
                             request |-> Request(builder, nSent + 1)])
            /\ given' = (Request(builder, nSent + 1).tag
                            :> UnwrapOrDefault(builder.user_metadata)) @@ given
            /\ last' = Last("send", m, t, "Pending", None)
    /\ cleared' = "no"
    /\ UNCHANGED <<codecVars, completed, permVars,
                   registered, dropped, platform, bundle, mgr, handlerCell,
                   categories, delegateRef, listener, chan, centerDelegate,
                   centerCategories, toasts, calls, nEvents>>

CompletionOutcomes == {"ok", "error", "released"}

\* The completion block of a pending send fires (with no error, or with an
\* NSError), or is released without being called; send resumes and returns.
SendCompleteA(i, outcome) ==
    /\ platform = "A"
    /\ i \in 1..Len(pending)
    /\ pending[i].kind = "completion"
    /\ LET p == pending[i] IN
       IF outcome = "ok"
       THEN /\ toasts' = (p.n :> p.request) @@ toasts
            /\ last' = Last("send", p.m, p.t, "Ok",
                            [id |-> p.request.tag, user_metadata |-> p.request.userInfo])
       ELSE /\ last' = Last("send", p.m, p.t,
                            IF outcome = "error" THEN "NSError" ELSE "TokioRecv", None)
            /\ UNCHANGED toasts
    /\ pending' = RemoveAt(pending, i)
    /\ cleared' = "no"
    /\ UNCHANGED <<codecVars, completed, permVars, given,
                   registered, dropped, platform, bundle, mgr, handlerCell,
                   categories, delegateRef, listener, chan, centerDelegate,
                   centerCategories, calls, nSent, nEvents>>

----------------------------------------------------------------------------
(* Adapter A: the delegate and the worker *)

UNNotificationDefaultActionIdentifier == <<"U", "N", ".", "D", "e", "f", "a", "u", "l", "t">>
UNNotificationDismissActionIdentifier == <<"U", "N", ".", "D", "i", "s", "m", "i", "s", "s">>

\* The action identifiers and the typed text a native response can carry: a
\* UNTextInputNotificationResponse carries text, any other response none.
NativeResponses ==
    [actionIdentifier : {UNNotificationDefaultActionIdentifier,
                         UNNotificationDismissActionIdentifier, <<"o", "k">>},
     userText : {NoneStr}]
    \cup [actionIdentifier : {<<"r", "e", "p", "l", "y">>}, userText : {<<"h", "i">>}]

\* The action did_receive_notification_response makes of the identifier.
ResponseAction(actionIdentifier) ==
    IF actionIdentifier = UNNotificationDefaultActionIdentifier THEN ActDefault
    ELSE IF actionIdentifier = UNNotificationDismissActionIdentifier THEN ActDismiss
    ELSE ActOther(actionIdentifier)

\* A try_send on a channel without a capacity.
TrySendOk_Unbounded(m) == listener[m].pc \in {"recv", "handling"}

\* Sender::try_send: the event is queued unless the channel is full or closed.
TrySendOk(m) ==
    /\ listener[m].pc \in {"recv", "handling"}
    /\ Len(chan[m]) < NOTIFICATION_RESPONSE_CHANNEL_SIZE

\* A delegate that returns without calling the completion handler when try_send fails.
did_receive_notification_response_ReturnsOnError(m, ev, native, req) ==
    LET event == Response(ev, req.tag, ResponseAction(native.actionIdentifier),
                          native.userText, req.userInfo)
    IN  /\ chan' = IF TrySendOk(m) THEN [chan EXCEPT ![m] = Append(@, event)] ELSE chan
        /\ dropped' = IF TrySendOk(m) THEN dropped ELSE dropped \cup {ev}
        /\ last' = Last("response", m, None,
                        IF TrySendOk(m) THEN "queued" ELSE "dropped", ev)
        /\ completed' = (ev :> IF TrySendOk(m) THEN 1 ELSE 0) @@ completed

\* NotificationDelegate::did_receive_notification_response on the delegate of
\* manager m, for a response to the request req.
did_receive_notification_response(m, ev, native, req) ==
    LET event == Response(ev, req.tag, ResponseAction(native.actionIdentifier),
                          native.userText, req.userInfo)
    IN  /\ chan' = IF TrySendOk(m) THEN [chan EXCEPT ![m] = Append(@, event)] ELSE chan
        /\ dropped' = IF TrySendOk(m) THEN dropped ELSE dropped \cup {ev}
        /\ last' = Last("response", m, None,
                        IF TrySendOk(m) THEN "queued" ELSE "dropped", ev)
        /\ completed' = (ev :> 1) @@ completed

\* The user responds to delivered notification n: the notification center calls
\* its delegate, if it has one, and the notification leaves the delivered list.
UserResponds(n, native) ==
    /\ platform = "A"
    /\ n \in DOMAIN toasts
    /\ nEvents < MaxEvents
    /\ nEvents' = nEvents + 1
    /\ toasts' = Without(toasts, n)
    /\ IF centerDelegate # None
       THEN did_receive_notification_response(centerDelegate, nEvents + 1, native, toasts[n])
       ELSE /\ last' = Last("response", None, None, "no_delegate", nEvents + 1)
            /\ UNCHANGED <<chan, dropped, completed>>
    /\ UNCHANGED <<codecVars, permVars, cleared, given,
                   registered, platform, bundle, mgr, handlerCell, categories,
                   delegateRef, listener, centerDelegate, centerCategories, pending, calls,
                   nSent>>

\* A worker that takes the next event while the handler is still running.
WorkerRecv_Concurrent(m) ==
    /\ platform = "A"
    /\ listener[m].pc \in {"recv", "handling"}
    /\ chan[m] # <<>>
    /\ chan' = [chan EXCEPT ![m] = Tail(@)]
    /\ listener' = [listener EXCEPT ![m].pc = "handling", ![m].active = @ + 1]
    /\ calls' = Append(calls, Invocation(m, listener[m].handler, Head(chan[m])))
    /\ last' = Last("handler", m, None, "called", Head(chan[m]).ev)
    /\ UNCHANGED <<codecVars, completed, permVars, cleared, given,
                   registered, dropped, platform, bundle, mgr, handlerCell,
                   categories, delegateRef, centerDelegate, centerCategories, toasts, pending,
                   nSent, nEvents>>

\* A worker that takes the newest queued event first.
WorkerRecv_NewestFirst(m) ==
    /\ platform = "A"
    /\ listener[m].pc = "recv"
    /\ chan[m] # <<>>
    /\ chan' = [chan EXCEPT ![m] = SubSeq(@, 1, Len(@) - 1)]
    /\ listener' = [listener EXCEPT ![m].pc = "handling", ![m].active = @ + 1]
    /\ calls' = Append(calls, Invocation(m, listener[m].handler, chan[m][Len(chan[m])]))
    /\ last' = Last("handler", m, None, "called", chan[m][Len(chan[m])].ev)
    /\ UNCHANGED <<codecVars, completed, permVars, cleared, given,
                   registered, dropped, platform, bundle, mgr, handlerCell,
                   categories, delegateRef, centerDelegate, centerCategories, toasts,
                   pending, nSent, nEvents>>

\* The worker thread: blocking_recv returns the oldest queued event and the
\* handler is called with it.
WorkerRecv(m) ==
    /\ platform = "A"
    /\ listener[m].pc = "recv"
    /\ chan[m] # <<>>
    /\ chan' = [chan EXCEPT ![m] = Tail(@)]
    /\ listener' = [listener EXCEPT ![m].pc = "handling", ![m].active = @ + 1]
    /\ calls' = Append(calls, Invocation(m, listener[m].handler, Head(chan[m])))
    /\ last' = Last("handler", m, None, "called", Head(chan[m]).ev)
    /\ UNCHANGED <<codecVars, completed, permVars, cleared, given,
                   registered, dropped, platform, bundle, mgr, handlerCell,
                   categories, delegateRef, centerDelegate, centerCategories, toasts,
                   pending, nSent, nEvents>>

\* The handler returns and the worker goes back to blocking_recv.
WorkerReturn(m) ==
    /\ platform = "A"
    /\ listener[m].pc = "handling"
    /\ listener' = [listener EXCEPT ![m].pc = "recv", ![m].active = @ - 1]
    /\ last' = Last("handler", m, None, "returned", None)
    /\ UNCHANGED <<codecVars, completed, permVars, cleared, given,
                   registered, dropped, platform, bundle, mgr, handlerCell,
                   categories, delegateRef, chan, centerDelegate, centerCategories, toasts,
                   pending, calls, nSent, nEvents>>

\* The handler panics: the worker thread unwinds and drops the receiver, which
\* closes the channel and discards what it holds.
HandlerPanics(m) ==
    /\ platform = "A"
    /\ listener[m].pc = "handling"
    /\ listener' = [listener EXCEPT ![m].pc = "panicked", ![m].active = @ - 1]
    /\ chan' = [chan EXCEPT ![m] = <<>>]
    /\ last' = Last("handler", m, None, "panicked", None)
    /\ UNCHANGED <<codecVars, completed, permVars, cleared, given,
                   registered, dropped, platform, bundle, mgr, handlerCell,
                   categories, delegateRef, centerDelegate, centerCategories, toasts,
                   pending, calls, nSent, nEvents>>

\* A worker that ends as soon as it finds the channel empty.
WorkerExit_WhenIdle(m) ==
    /\ platform = "A"
    /\ listener[m].pc = "recv"
    /\ chan[m] = <<>>
    /\ listener' = [listener EXCEPT ![m].pc = "exited"]
    /\ last' = Last("handler", m, None, "exited", None)
    /\ UNCHANGED <<codecVars, completed, permVars, cleared, given,
                   registered, dropped, platform, bundle, mgr, handlerCell,
                   categories, delegateRef, chan, centerDelegate, centerCategories, toasts,
                   pending, calls, nSent, nEvents>>

\* The worker's blocking_recv returns None, the channel being empty and its sender
\* released with the delegate: the while loop and the thread end.
WorkerExit(m) ==
    /\ platform = "A"
    /\ listener[m].pc = "recv"
    /\ chan[m] = <<>>
    /\ ~delegateRef[m]
    /\ listener' = [listener EXCEPT ![m].pc = "exited"]
    /\ last' = Last("handler", m, None, "exited", None)
    /\ UNCHANGED <<codecVars, completed, permVars, cleared, given,
                   registered, dropped, platform, bundle, mgr, handlerCell,
                   categories, delegateRef, chan, centerDelegate, centerCategories, toasts,
                   pending, calls, nSent, nEvents>>

\* The last value of the manager is dropped. NotifyManagerInner has no Drop of its
\* own: its fields are dropped, delegate_reference among them, which releases the
\* delegate and with it the sender of Ivars; the notification center holds the
\* delegate weakly. The worker's JoinHandle is dropped, which detaches the thread.
\* On a thread other than the constructing one the SendWrapper panics instead of
\* dropping what it holds.
DropManagerA(m, t) ==
    /\ platform = "A"
    /\ mgr[m] # NoManager
    /\ \A v \in Mgrs \ {m} : mgr[v] = NoManager \/ mgr[v].inner # mgr[m].inner
    /\ mgr' = [mgr EXCEPT ![m] = NoManager]
    /\ IF t # mgr[m].creator
       THEN /\ last' = Last("drop_manager", m, t, "Panic", None)
            /\ UNCHANGED <<delegateRef, centerDelegate>>
       ELSE /\ delegateRef' = [delegateRef EXCEPT ![mgr[m].inner] = FALSE]
            /\ centerDelegate' = IF centerDelegate = mgr[m].inner THEN None
                                 ELSE centerDelegate
            /\ last' = Last("drop_manager", m, t, "Ok", None)
    /\ UNCHANGED <<codecVars, completed, permVars, cleared, given,
                   registered, dropped, platform, bundle, handlerCell,
                   categories, listener, chan, centerCategories, toasts,
                   pending, calls, nSent, nEvents>>

----------------------------------------------------------------------------
(* Delivered notifications: query and removal *)

Restrict(f, S) == [x \in S |-> f[x]]

\* The elements of a set of numbers, smallest first: the order in which the OS
\* lists the notifications it holds.
RECURSIVE Ascending(_)
Ascending(S) ==
    IF S = {} THEN <<>>
    ELSE LET x == CHOOSE x \in S : \A y \in S : x <= y IN <<x>> \o Ascending(S \ {x})

\* The handle get_active_notifications makes of a toast on Adapter B: its tag, and
\* its metadata or, when that cannot be read, the empty mapping.
ToastHandle(toast) ==
    [id |-> toast.tag,
     user_metadata |-> IF user_info_from_toast(toast).ok
                       THEN user_info_from_toast(toast).map
                       ELSE EmptyMap]

GetActiveOutcomesB == {"ok", "fail_history", "fail_tag"}

\* A get_active_notifications that leaves out the toasts whose metadata cannot be
\* read.
GetActiveB_SkipUnreadable(m, t, native) ==
    /\ platform = "B"
    /\ mgr[m] # NoManager
    /\ native = "fail_tag" => HistoryOf(mgr[m].app_id) # {}
    /\ LET history == Ascending({n \in HistoryOf(mgr[m].app_id) :
                                    user_info_from_toast(toasts[n]).ok})
       IN  last' = IF native = "ok"
                   THEN Last("get_active_notifications", m, t, "Ok",
                             [i \in 1..Len(history) |-> ToastHandle(toasts[history[i]])])
                   ELSE Last("get_active_notifications", m, t, "Windows", None)
    /\ UNCHANGED <<codecVars, completed, permVars, cleared, given,
                   registered, dropped, platform, bundle, mgr, handlerCell,
                   categories, delegateRef, listener, chan, centerDelegate,
                   centerCategories, toasts, pending, calls, nSent, nEvents>>

\* windows NotifyManager::get_active_notifications: the history of the manager's
\* app id, one handle per toast. native is how far the native calls got: the
\* history could not be read, a toast's tag could not be read, or all succeeded.
GetActiveB(m, t, native) ==
    /\ platform = "B"
    /\ mgr[m] # NoManager
    /\ native = "fail_tag" => HistoryOf(mgr[m].app_id) # {}
    /\ LET history == Ascending(HistoryOf(mgr[m].app_id))
       IN  last' = IF native = "ok"
                   THEN Last("get_active_notifications", m, t, "Ok",
                             [i \in 1..Len(history) |-> ToastHandle(toasts[history[i]])])
                   ELSE Last("get_active_notifications", m, t, "Windows", None)
    /\ UNCHANGED <<codecVars, completed, permVars, cleared, given,
                   registered, dropped, platform, bundle, mgr, handlerCell,
                   categories, delegateRef, listener, chan, centerDelegate,
                   centerCategories, toasts, pending, calls, nSent, nEvents>>

GetActiveOutcomesA == {"ok", "released"}

\* A get_active_notifications that takes a released completion block for an empty
\* list of delivered notifications.
GetActiveA_EmptyOnRelease(m, t, outcome) ==
    /\ platform = "A"
    /\ mgr[m] # NoManager
    /\ LET delivered == IF outcome = "ok" THEN Ascending(DOMAIN toasts) ELSE <<>>
       IN  last' = IF ~mgr[m].bundle_id
                   THEN Last("get_active_notifications", m, t, "NoBundleId", None)
                   ELSE Last("get_active_notifications", m, t, "Ok",
                             [i \in 1..Len(delivered) |-> HandleOf(toasts[delivered[i]])])
    /\ UNCHANGED <<codecVars, completed, permVars, cleared, given,
                   registered, dropped, platform, bundle, mgr, handlerCell,
                   categories, delegateRef, listener, chan, centerDelegate,
                   centerCategories, toasts, pending, calls, nSent, nEvents>>

\* macos NotifyManager::get_active_notifications: the bundle identifier is checked,
\* the notification center is asked for the delivered notifications and the call
\* awaits the completion block, which converts them to handles
\* (convert_notifications_to_handles) or is released without being called.
GetActiveA(m, t, outcome) ==
    /\ platform = "A"
    /\ mgr[m] # NoManager
    /\ LET delivered == Ascending(DOMAIN toasts)
       IN  last' = IF ~mgr[m].bundle_id
                   THEN Last("get_active_notifications", m, t, "NoBundleId", None)
                   ELSE IF outcome = "ok"
                   THEN Last("get_active_notifications", m, t, "Ok",
                             [i \in 1..Len(delivered) |-> HandleOf(toasts[delivered[i]])])
                   ELSE Last("get_active_notifications", m, t, "TokioRecv", None)
    /\ UNCHANGED <<codecVars, completed, permVars, cleared, given,
                   registered, dropped, platform, bundle, mgr, handlerCell,
                   categories, delegateRef, listener, chan, centerDelegate,
                   centerCategories, toasts, pending, calls, nSent, nEvents>>

ClearOutcomes == {"cleared", "fail_history", "fallback_cleared", "fallback_failed"}

\* A remove_all_delivered_notifications whose fallback clears only what this
\* session sent.
RemoveAllB_SessionOnly(m, t, native) ==
    /\ platform = "B"
    /\ mgr[m] # NoManager
    /\ IF native = "fail_history"
       THEN /\ last' = Last("remove_all_delivered_notifications", m, t, "Windows", None)
            /\ UNCHANGED <<toasts, cleared>>
       ELSE /\ toasts' = IF native = "cleared"
                         THEN Restrict(toasts, DOMAIN toasts \ HistoryOf(mgr[m].app_id))
                         ELSE Restrict(toasts, DOMAIN toasts \ (1..nSent))
            /\ cleared' = "native"
            /\ last' = Last("remove_all_delivered_notifications", m, t, "Ok", native)
    /\ UNCHANGED <<codecVars, completed, permVars, given,
                   registered, dropped, platform, bundle, mgr, handlerCell,
                   categories, delegateRef, listener, chan, centerDelegate,
                   centerCategories, pending, calls, nSent, nEvents>>

\* windows NotifyManager::remove_all_delivered_notifications, that is
\* clear_all_notifications: History()?.Clear(), and when Clear fails
\* clear_notifications_by_app_id, whose failures are logged. native is how far the
\* native calls got: History failed, Clear succeeded, ClearWithId succeeded after
\* Clear failed, or the fallback failed as well.
RemoveAllB(m, t, native) ==
    /\ platform = "B"
    /\ mgr[m] # NoManager
    /\ IF native = "fail_history"
       THEN /\ last' = Last("remove_all_delivered_notifications", m, t, "Windows", None)
            /\ UNCHANGED <<toasts, cleared>>
       ELSE /\ toasts' = IF native \in {"cleared", "fallback_cleared"}
                         THEN Restrict(toasts, DOMAIN toasts \ HistoryOf(mgr[m].app_id))
                         ELSE toasts
            /\ cleared' = IF native = "fallback_failed" THEN "skipped" ELSE "native"
            /\ last' = Last("remove_all_delivered_notifications", m, t, "Ok", native)
    /\ UNCHANGED <<codecVars, completed, permVars, given,
                   registered, dropped, platform, bundle, mgr, handlerCell,
                   categories, delegateRef, listener, chan, centerDelegate,
                   centerCategories, pending, calls, nSent, nEvents>>

\* macos NotifyManager::remove_all_delivered_notifications: the bundle identifier
\* is checked, then the notification center removes every delivered notification.
RemoveAllA(m, t) ==
    /\ platform = "A"
    /\ mgr[m] # NoManager
    /\ IF ~mgr[m].bundle_id
       THEN /\ last' = Last("remove_all_delivered_notifications", m, t, "NoBundleId", None)
            /\ UNCHANGED <<toasts, cleared>>
       ELSE /\ toasts' = EmptyMap
            /\ cleared' = "native"
            /\ last' = Last("remove_all_delivered_notifications", m, t, "Ok", "cleared")
    /\ UNCHANGED <<codecVars, completed, permVars, given,
                   registered, dropped, platform, bundle, mgr, handlerCell,
                   categories, delegateRef, listener, chan, centerDelegate,
                   centerCategories, pending, calls, nSent, nEvents>>

\* windows NotifyManager::remove_delivered_notifications: remove_notification_by_id
\* for each id; failed are the ids for which History or RemoveGroupedTagWithId
\* failed, which is logged.
RemoveDeliveredB(m, t, ids, failed) ==
    /\ platform = "B"
    /\ mgr[m] # NoManager
    /\ failed \subseteq ids
    /\ toasts' = Restrict(toasts, {n \in DOMAIN toasts :
                                      ~(/\ n \in HistoryOf(mgr[m].app_id)
                                        /\ toasts[n].tag \in ids \ failed)})
    /\ last' = Last("remove_delivered_notifications", m, t, "Ok", ids)
    /\ UNCHANGED <<codecVars, completed, permVars, cleared, given,
                   registered, dropped, platform, bundle, mgr, handlerCell,
                   categories, delegateRef, listener, chan, centerDelegate,
                   centerCategories, pending, calls, nSent, nEvents>>

\* macos NotifyManager::remove_delivered_notifications, that is
\* remove_notifications_by_ids: the bundle identifier is checked, then the
\* notification center removes the delivered notifications with these identifiers.
RemoveDeliveredA(m, t, ids) ==
    /\ platform = "A"
    /\ mgr[m] # NoManager
    /\ IF ~mgr[m].bundle_id
       THEN /\ last' = Last("remove_delivered_notifications", m, t, "NoBundleId", ids)
            /\ UNCHANGED toasts
       ELSE /\ toasts' = Restrict(toasts, {n \in DOMAIN toasts : toasts[n].tag \notin ids})
            /\ last' = Last("remove_delivered_notifications", m, t, "Ok", ids)
    /\ UNCHANGED <<codecVars, completed, permVars, cleared, given,
                   registered, dropped, platform, bundle, mgr, handlerCell,
                   categories, delegateRef, listener, chan, centerDelegate,
                   centerCategories, pending, calls, nSent, nEvents>>

\* NotifyHandle::close on the handle with this id. windows: the call is logged and
\* returns Ok. macos remove_notification_by_id: the thread and the bundle
\* identifier are checked, then the notification center removes the delivered
\* notification with the identifier.
Close(id, t) ==
    /\ IF platform = "B"
       THEN /\ last' = Last("close", None, t, "Ok", id)
            /\ UNCHANGED toasts
       ELSE IF t # MainThread
       THEN /\ last' = Last("close", None, t, "NotMainThread", id)
            /\ UNCHANGED toasts
       ELSE IF ~bundle
       THEN /\ last' = Last("close", None, t, "NoBundleId", id)
            /\ UNCHANGED toasts
       ELSE /\ toasts' = Restrict(toasts, {n \in DOMAIN toasts : toasts[n].tag # id})
            /\ last' = Last("close", None, t, "Ok", id)
    /\ UNCHANGED <<codecVars, completed, permVars, cleared, given,
                   registered, dropped, platform, bundle, mgr, handlerCell,
                   categories, delegateRef, listener, chan, centerDelegate,
                   centerCategories, pending, calls, nSent, nEvents>>

\* The handle with this id is dropped: neither adapter's NotifyHandle implements
\* Drop.
DropHandle(id, t) ==
    /\ last' = Last("drop", None, t, "Ok", id)
    /\ UNCHANGED <<codecVars, completed, permVars, cleared, given,
                   registered, dropped, platform, bundle, mgr, handlerCell,
                   categories, delegateRef, listener, chan, centerDelegate,
                   centerCategories, toasts, pending, calls, nSent, nEvents>>

----------------------------------------------------------------------------
(* The specification of the managers *)

\* Construction, registration, sending and the user's interactions, for the managers
\* ms, given handlers hs, category lists cls, builders bs and notification protocols
\* ps. register reads the history, and the outcome of each subscription, only when
\* it has set the handler.
SysNext(ms, hs, cls, bs, ps) ==
    \/ \E m \in ms, t \in Threads : New_(m, t)
    \/ \E m \in ms, t \in Threads : TryNewA(m, t)
    \/ \E m \in ms, t \in Threads, app \in AppIds, protocol \in ps,
          notifierOk \in BOOLEAN : TryNewB(m, t, app, protocol, notifierOk)
    \/ \E m \in ms, t \in Threads, h \in hs, cats \in cls : RegisterA(m, t, h, cats)
    \/ \E m \in ms, t \in Threads, h \in hs, cats \in cls :
          \E historyOk \in (IF handlerCell[m] = None THEN BOOLEAN ELSE {TRUE}) :
             \E outcomes \in [(IF handlerCell[m] = None /\ historyOk
                                THEN HistoryOf(mgr[m].app_id) ELSE {}) -> ListenerOutcomes] :
                RegisterB(m, t, h, cats, historyOk, outcomes)
    \/ \E m \in ms, t \in Threads, builder \in bs, native \in SendOutcomes :
          nSent < MaxSends /\ SendB(m, t, builder, native)
    \/ \E m \in ms, t \in Threads, builder \in bs :
          nSent < MaxSends /\ SendStartA(m, t, builder)
    \/ \E i \in 1..MaxSends, outcome \in CompletionOutcomes : SendCompleteA(i, outcome)
    \/ \E n \in 1..MaxSends :
          \E arg \in (IF n \in DOMAIN toasts THEN ActivationArguments(toasts[n]) ELSE {}) :
             UserActivates(n, arg)
    \/ \E n \in 1..MaxSends, reason \in DismissalReasons : ToastDismissed(n, reason)
    \/ ActivatedCallback
    \/ DismissedCallback
    \/ \E n \in 1..MaxSends, native \in NativeResponses : UserResponds(n, native)
    \/ \E m \in ms : WorkerRecv(m)
    \/ \E m \in ms : WorkerReturn(m)

----------------------------------------------------------------------------
(* Inputs of the codec *)

Schemes == {<<"a","p","p">>, <<"t","e","s","t","-","n","o","t","i","f","y">>}

\* Notification ids as generate_notification_id makes them: hexadecimal digits and "-".
NotificationIds == {<<"1","f">>, <<"9","c","-","4">>}

ActionIdentifiers ==
    {<<"o","k">>, <<"c","a","t",".","a",".","o","k">>, <<"r","e","p","l","y">>, DEFAULT_TOKEN}

Actions == {ActDefault, ActDismiss} \cup {ActOther(a) : a \in ActionIdentifiers}

MetaKeys == {<<"k">>, <<"a","b">>}
MetaValues == {<<>>, <<"v">>, <<"\"","\\">>}

\* Every mapping from some of the keys to the values.
Metadatas == UNION {[ks -> MetaValues] : ks \in SUBSET MetaKeys}

\* While the codec runs no manager exists.
SysIdle ==
    /\ SysInit
    /\ platform = "B"

CodecInit ==
    /\ SysIdle
    /\ cPc = "input"
    /\ cIn \in [scheme : Schemes,
                resp : [notification_id : NotificationIds, action : Actions,
                        user_input : {NoneStr}, user_metadata : Metadatas]]
    /\ cUri = <<>>
    /\ cOut = DecodeErr(None)

Encode ==
    /\ cPc = "input"
    /\ cUri' = encode_deeplink(cIn.scheme, cIn.resp)
    /\ cPc' = "encoded"
    /\ UNCHANGED <<cIn, cOut, sysVars>>

Decode ==
    /\ cPc = "encoded"
    /\ cOut' = decode_deeplink(cUri)
    /\ cPc' = "decoded"
    /\ UNCHANGED <<cIn, cUri, sysVars>>

CodecNext == Encode \/ Decode

vars == <<codecVars, sysVars>>

SpecCodec == CodecInit /\ [][CodecNext]_vars

----------------------------------------------------------------------------
(* The managers of both adapters *)

\* While the managers run the codec is idle.
CodecIdle ==
    /\ cPc = "idle"
    /\ cIn = [scheme |-> <<>>,
              resp |-> Response(0, <<>>, ActDefault, NoneStr, EmptyMap)]
    /\ cUri = <<>>
    /\ cOut = DecodeErr(None)

Init == SysInit /\ CodecIdle

\* One manager, with every handler, category list and builder.
Next == SysNext({"m1"}, Handlers, CategoryLists, Builders, Protocols)

Spec == Init /\ [][Next]_vars

\* Two managers constructed, asked for permission, registered and used to send from
\* any thread, each with the same handler, category list and builder.
TwoBuilder == [category_id |-> <<"X">>, user_metadata |-> NoneMap]

TwoNext ==
    \/ \E m \in Mgrs, t \in Threads : TryNewA(m, t)
    \/ \E m \in Mgrs, t \in Threads, notifierOk \in BOOLEAN :
          TryNewB(m, t, "app1", NoneStr, notifierOk)
    \/ \E m \in Mgrs, t \in Threads, op \in PermissionOps :
          \E outcome \in PermissionOutcomes(op) : PermissionA(m, t, op, outcome)
    \/ \E m \in Mgrs, t \in Threads, op \in PermissionOps : PermissionB(m, t, op)
    \/ \E m \in Mgrs, t \in Threads : RegisterA(m, t, "h1", <<CatX>>)
    \/ \E m \in Mgrs, t \in Threads :
          \E historyOk \in (IF handlerCell[m] = None THEN BOOLEAN ELSE {TRUE}) :
             \E outcomes \in [(IF handlerCell[m] = None /\ historyOk
                                THEN HistoryOf(mgr[m].app_id) ELSE {}) -> ListenerOutcomes] :
                RegisterB(m, t, "h1", <<CatX>>, historyOk, outcomes)
    \/ \E m \in Mgrs, t \in Threads, native \in SendOutcomes :
          nSent < MaxSends /\ SendB(m, t, TwoBuilder, native)
    \/ \E m \in Mgrs, t \in Threads : nSent < MaxSends /\ SendStartA(m, t, TwoBuilder)
    \/ \E i \in 1..MaxSends, outcome \in CompletionOutcomes : SendCompleteA(i, outcome)

SpecTwo == Init /\ [][TwoNext]_vars

----------------------------------------------------------------------------
(* Adapter A: one manager and its event channel under a burst of responses *)

\* How many responses the notification center may deliver.
MaxChanEvents == 12

ChanMgr == "m1"

\* A notification this application delivered earlier and the user can still
\* respond to.
DeliveredEarlier == Request([category_id |-> NoneStr, user_metadata |-> NoneMap], 1)

ChanResponses ==
    {r \in NativeResponses :
        r.actionIdentifier = <<"r", "e", "p", "l", "y">>}

\* The notification center calls its delegate with a response to DeliveredEarlier.
DelegateCalled(native) ==
    /\ platform = "A"
    /\ centerDelegate # None
    /\ nEvents < MaxChanEvents
    /\ nEvents' = nEvents + 1
    /\ did_receive_notification_response(centerDelegate, nEvents + 1, native, DeliveredEarlier)
    /\ UNCHANGED <<codecVars, permVars, cleared, given,
                   registered, platform, bundle, mgr, handlerCell, categories,
                   delegateRef, listener, centerDelegate, centerCategories, toasts, pending,
                   calls, nSent>>

ChanInit ==
    /\ SysInit
    /\ platform = "A"
    /\ bundle
    /\ CodecIdle

ChanNext ==
    \/ \E t \in Threads : TryNewA(ChanMgr, t)
    \/ \E t \in Threads, h \in Handlers : RegisterA(ChanMgr, t, h, <<>>)
    \/ \E native \in ChanResponses : DelegateCalled(native)
    \/ WorkerRecv(ChanMgr)
    \/ WorkerReturn(ChanMgr)

SpecChan == ChanInit /\ [][ChanNext]_vars

\* The worker is a thread of its own (thread::spawn): when an event is queued
\* blocking_recv returns it, and the loop goes on when the handler returns, which is
\* what the caller's handler is required to do.
ChanFairness ==
    /\ WF_vars(WorkerRecv(ChanMgr))
    /\ WF_vars(WorkerReturn(ChanMgr))

SpecChanLive == ChanInit /\ [][ChanNext]_vars /\ ChanFairness

\* The life of one manager and its worker: the manager is constructed once,
\* registered, and dropped; the user responds; the handler returns or panics.
WorkerNext ==
    \/ \E t \in Threads : listener[ChanMgr] = NoListener /\ TryNewA(ChanMgr, t)
    \/ \E t \in Threads, h \in Handlers : RegisterA(ChanMgr, t, h, <<>>)
    \/ \E native \in ChanResponses : DelegateCalled(native)
    \/ WorkerRecv(ChanMgr)
    \/ WorkerReturn(ChanMgr)
    \/ HandlerPanics(ChanMgr)
    \/ WorkerExit(ChanMgr)
    \/ \E t \in Threads : DropManagerA(ChanMgr, t)

SpecWorker == ChanInit /\ [][WorkerNext]_vars

\* The worker thread runs: it takes a queued event, goes on when the handler
\* returns, and ends when blocking_recv returns None.
WorkerFairness ==
    /\ WF_vars(WorkerRecv(ChanMgr))
    /\ WF_vars(WorkerReturn(ChanMgr) \/ HandlerPanics(ChanMgr))
    /\ WF_vars(WorkerExit(ChanMgr))

SpecWorkerLive == ChanInit /\ [][WorkerNext]_vars /\ WorkerFairness

----------------------------------------------------------------------------
(* One manager, its categories and the user's interactions *)

\* A category whose action identifier has the form of a URI.
CatZ == [identifier |-> <<"Z">>,
         actions |-> <<[type |-> "Action", identifier |-> <<"a", ":", "b">>]>>]

ActCategories == <<CatX, CatZ>>

\* Builders without metadata, with plain metadata, and with metadata that holds
\* the character "&".
ActBuilders ==
    {[category_id |-> NoneStr, user_metadata |-> NoneMap],
     [category_id |-> <<"X">>, user_metadata |-> (<<"k">> :> <<"v">>)],
     [category_id |-> <<"Z">>, user_metadata |-> (<<"k">> :> <<"&", "a", "m", "p", ";">>)],
     [category_id |-> NoneStr, user_metadata |-> (<<"k">> :> <<"&">>)]}

\* One manager is constructed and registered with ActCategories on the main thread,
\* sends, and the user interacts with what it sent; every native call succeeds.
ActNext ==
    \/ TryNewA("m1", MainThread)
    \/ \E protocol \in Protocols : TryNewB("m1", MainThread, "app1", protocol, TRUE)
    \/ RegisterA("m1", MainThread, "h1", ActCategories)
    \/ RegisterB("m1", MainThread, "h1", ActCategories, TRUE,
                 [n \in HistoryOf(mgr["m1"].app_id) |-> "both"])
    \/ \E builder \in ActBuilders : nSent < MaxSends /\ SendB("m1", MainThread, builder, "ok")
    \/ \E builder \in ActBuilders : nSent < MaxSends /\ SendStartA("m1", MainThread, builder)
    \/ \E i \in 1..MaxSends : SendCompleteA(i, "ok")
    \/ \E n \in 1..MaxSends :
          \E arg \in (IF n \in DOMAIN toasts THEN ActivationArguments(toasts[n]) ELSE {}) :
             UserActivates(n, arg)
    \/ \E n \in 1..MaxSends, reason \in {"UserCanceled", "TimedOut"} :
          ToastDismissed(n, reason)
    \/ ActivatedCallback
    \/ DismissedCallback
    \/ \E n \in 1..MaxSends, native \in NativeResponses : UserResponds(n, native)
    \/ WorkerRecv("m1")
    \/ WorkerReturn("m1")

SpecAct == Init /\ [][ActNext]_vars

----------------------------------------------------------------------------
(* One manager and the notifications the OS holds for the application *)

\* The metadata and the identifier of a notification delivered in an earlier
\* session, and an identifier no notification has.
EarlierMetadata == (<<"k">> :> <<"v">>)
EarlierId == <<"3", "c">>
UnknownId == <<"7", "e">>

\* The notification of the earlier session as the OS holds it: no subscription of
\* this session is attached to it.
DeliveredBefore ==
    IF platform = "A"
    THEN [Request([category_id |-> NoneStr, user_metadata |-> EarlierMetadata], 1)
           EXCEPT !.tag = EarlierId \o BundleSuffix]
    ELSE [tag |-> EarlierId, app |-> "app1",
          data |-> serialize_user_metadata(EarlierMetadata),
          userInfo |-> EmptyMap, category |-> NoneStr, launch |-> NoneStr,
          actions |-> <<>>, asubs |-> <<>>, dsubs |-> <<>>]

StoreBuilders ==
    {[category_id |-> NoneStr, user_metadata |-> NoneMap],
     [category_id |-> NoneStr, user_metadata |-> (<<"k">> :> <<"&">>)]}

\* The identifiers a caller may pass to remove_delivered_notifications.
RemovableIds == {toasts[n].tag : n \in DOMAIN toasts} \cup {UnknownId}

\* The application starts with the notification of the earlier session still
\* delivered, or with none.
StoreInit ==
    /\ platform \in {"A", "B"}
    /\ bundle \in (IF platform = "A" THEN BOOLEAN ELSE {TRUE})
    /\ mgr = [m \in Mgrs |-> NoManager]
    /\ handlerCell = [m \in Mgrs |-> None]
    /\ categories = [m \in Mgrs |-> EmptyMap]
    /\ delegateRef = [m \in Mgrs |-> FALSE]
    /\ listener = [m \in Mgrs |-> NoListener]
    /\ chan = [m \in Mgrs |-> <<>>]
    /\ centerDelegate = None
    /\ centerCategories = {}
    /\ toasts \in {EmptyMap, (0 :> DeliveredBefore)}
    /\ pending = <<>>
    /\ calls = <<>>
    /\ nSent = 0
    /\ nEvents = 0
    /\ dropped = {}
    /\ completed = EmptyMap
    /\ registered = {}
    /\ authorization = "NotDetermined"
    /\ prompts = 0
    /\ cleared = "no"
    /\ given = EmptyMap
    /\ last = Last("init", None, None, None, None)
    /\ CodecIdle

\* One manager is constructed on the main thread, sends, queries and removes, and
\* the user interacts with what the OS holds.
StoreNext ==
    \/ New_("m1", MainThread)
    \/ TryNewA("m1", MainThread)
    \/ TryNewB("m1", MainThread, "app1", NoneStr, TRUE)
    \/ \E builder \in StoreBuilders :
          nSent < MaxSends /\ SendB("m1", MainThread, builder, "ok")
    \/ \E builder \in StoreBuilders :
          nSent < MaxSends /\ SendStartA("m1", MainThread, builder)
    \/ \E i \in 1..MaxSends, outcome \in CompletionOutcomes : SendCompleteA(i, outcome)
    \/ \E native \in GetActiveOutcomesB : GetActiveB("m1", MainThread, native)
    \/ \E outcome \in GetActiveOutcomesA : GetActiveA("m1", MainThread, outcome)
    \/ \E native \in ClearOutcomes : RemoveAllB("m1", MainThread, native)
    \/ RemoveAllA("m1", MainThread)
    \/ \E ids \in SUBSET RemovableIds : \E failed \in SUBSET ids :
          RemoveDeliveredB("m1", MainThread, ids, failed)
    \/ \E ids \in SUBSET RemovableIds : RemoveDeliveredA("m1", MainThread, ids)
    \/ \E n \in DOMAIN toasts, t \in Threads : Close(toasts[n].tag, t)
    \/ \E n \in DOMAIN toasts, t \in Threads : DropHandle(toasts[n].tag, t)
    \/ \E n \in DOMAIN toasts : \E arg \in ActivationArguments(toasts[n]) :
          UserActivates(n, arg)
    \/ \E n \in DOMAIN toasts, reason \in {"UserCanceled", "TimedOut"} :
          ToastDismissed(n, reason)
    \/ ActivatedCallback
    \/ DismissedCallback
    \/ \E n \in DOMAIN toasts, native \in NativeResponses : UserResponds(n, native)

SpecStore == StoreInit /\ [][StoreNext]_vars

----------------------------------------------------------------------------
(* Adapter B: a manager registered over the history of an earlier session *)

\* A manager of Adapter B is constructed while the history may hold a notification
\* of an earlier session; it registers, sends, and the user interacts with what
\* the history holds.
HistoryNext ==
    \/ \E protocol \in Protocols : TryNewB("m1", MainThread, "app1", protocol, TRUE)
    \/ \E t \in Threads, h \in Handlers, historyOk \in BOOLEAN :
          \E outcomes \in [(IF handlerCell["m1"] = None /\ historyOk
                             THEN HistoryOf(mgr["m1"].app_id) ELSE {}) -> ListenerOutcomes] :
             RegisterB("m1", t, h, <<CatX>>, historyOk, outcomes)
    \/ \E builder \in StoreBuilders, native \in SendOutcomes :
          nSent < MaxSends /\ SendB("m1", MainThread, builder, native)
    \/ \E n \in DOMAIN toasts : \E arg \in ActivationArguments(toasts[n]) :
          UserActivates(n, arg)
    \/ \E n \in DOMAIN toasts, reason \in DismissalReasons : ToastDismissed(n, reason)
    \/ ActivatedCallback
    \/ DismissedCallback

SpecHistory == StoreInit /\ [][HistoryNext]_vars

\* The same manager without the user: it sends and registers over a history that
\* can or cannot be read and whose notifications can or cannot be subscribed to.
WalkNext ==
    \/ \E protocol \in Protocols : TryNewB("m1", MainThread, "app1", protocol, TRUE)
    \/ \E t \in Threads, h \in Handlers, historyOk \in BOOLEAN :
          \E outcomes \in [(IF handlerCell["m1"] = None /\ historyOk
                             THEN HistoryOf(mgr["m1"].app_id) ELSE {}) -> ListenerOutcomes] :
             RegisterB("m1", t, h, <<CatX>>, historyOk, outcomes)
    \/ \E t \in Threads, builder \in StoreBuilders, native \in SendOutcomes :
          nSent < MaxSends /\ SendB("m1", t, builder, native)

SpecWalk == StoreInit /\ [][WalkNext]_vars

----------------------------------------------------------------------------
(* Sends of one thread while another registers *)

\* Two categories with one identifier: the second replaces the first in the map.
LockCategories == <<CatX, [CatY EXCEPT !.identifier = <<"X">>]>>

\* A manager is constructed; one thread registers, on Adapter B step by step,
\* while another sends.
LockNext ==
    \/ \E protocol \in Protocols : TryNewB("m1", MainThread, "app1", protocol, TRUE)
    \/ TryNewA("m1", MainThread)
    \/ \E h \in Handlers : RegisterA("m1", MainThread, h, LockCategories)
    \/ \E t \in Threads, builder \in Builders :
          nSent < MaxLockSends /\ SendStartA("m1", t, builder)
    \/ \E i \in 1..MaxLockSends, outcome \in CompletionOutcomes : SendCompleteA(i, outcome)
    \/ \E t \in Threads, h \in Handlers : RegisterStartB("m1", t, h, LockCategories)
    \/ \E i \in 1..Len(pending), historyOk \in BOOLEAN :
          StoreCategoriesStep(i, historyOk,
                              [n \in HistoryOf(mgr["m1"].app_id) |-> "both"])
    \/ \E t \in Threads, builder \in Builders, native \in SendOutcomes :
          /\ nSent < MaxLockSends
          /\ builder.category_id # NoneStr => CategoriesReadable("m1")
          /\ SendB("m1", t, builder, native)

SpecLock == StoreInit /\ [][LockNext]_vars

----------------------------------------------------------------------------
(* One manager and its clone *)

\* A manager is constructed and cloned; register, send and the user's interactions
\* go through either value, that is to the cells mgr[v].inner names.
CloneNext ==
    \/ TryNewA("m1", MainThread)
    \/ TryNewB("m1", MainThread, "app1", NoneStr, TRUE)
    \/ \E t \in Threads : Clone("m1", "m2", t)
    \/ \E v \in Mgrs, t \in Threads, h \in Handlers :
          mgr[v] # NoManager /\ RegisterA(mgr[v].inner, t, h, <<CatX>>)
    \/ \E v \in Mgrs, t \in Threads, h \in Handlers :
          /\ mgr[v] # NoManager
          /\ RegisterB(mgr[v].inner, t, h, <<CatX>>, TRUE,
                       [n \in HistoryOf(mgr[v].app_id) |-> "both"])
    \/ \E v \in Mgrs, t \in Threads :
          /\ mgr[v] # NoManager
          /\ nSent < MaxSends
          /\ SendB(mgr[v].inner, t, TwoBuilder, "ok")
    \/ \E v \in Mgrs, t \in Threads :
          /\ mgr[v] # NoManager
          /\ nSent < MaxSends
          /\ SendStartA(mgr[v].inner, t, TwoBuilder)
    \/ \E i \in 1..MaxSends : SendCompleteA(i, "ok")
    \/ \E n \in DOMAIN toasts : \E arg \in ActivationArguments(toasts[n]) :
          UserActivates(n, arg)
    \/ \E n \in DOMAIN toasts : ToastDismissed(n, "UserCanceled")
    \/ ActivatedCallback
    \/ DismissedCallback
    \/ \E n \in DOMAIN toasts, native \in NativeResponses : UserResponds(n, native)
    \/ \E m \in Mgrs : WorkerRecv(m)
    \/ \E m \in Mgrs : WorkerReturn(m)

SpecClone == Init /\ [][CloneNext]_vars

----------------------------------------------------------------------------
(* Adapter A: the operations that await a completion block *)

\* One manager sends, asks for and about the permission and lists the delivered
\* notifications; the notification center calls each completion block or releases it.
AwaitNext ==
    \/ New_("m1", MainThread)
    \/ TryNewA("m1", MainThread)
    \/ \E t \in Threads, builder \in StoreBuilders :
          nSent < MaxSends /\ SendStartA("m1", t, builder)
    \/ \E i \in 1..MaxSends, outcome \in CompletionOutcomes : SendCompleteA(i, outcome)
    \/ \E t \in Threads, op \in PermissionOps :
          \E outcome \in PermissionOutcomes(op) : PermissionA("m1", t, op, outcome)
    \/ \E t \in Threads, outcome \in GetActiveOutcomesA : GetActiveA("m1", t, outcome)

SpecAwait == StoreInit /\ [][AwaitNext]_vars

----------------------------------------------------------------------------
(* Adapter A: a completion block invoked more than once *)

\* How often the notification center may invoke one completion block.
MaxInvocations == 2

AwaitingOps == {"send", "get_active_notifications"} \cup PermissionOps

\* The results an invocation of the completion block of op can carry: no error or
\* an NSError, the settings or the decision, no or one delivered notification.
ResultsOf(op) ==
    IF op = "send" THEN {"Ok", "NSError"}
    ELSE IF op = "get_active_notifications" THEN {"none", "one"}
    ELSE {"true", "false"}

\* An awaiting operation creates its oneshot channel and its completion block, whose
\* RefCell holds Some(sender) (for send, Some(callback that owns the sender)), hands
\* the block to the notification center and awaits the receiver.
BridgeStart(m, t, op) ==
    /\ platform = "A"
    /\ mgr[m] # NoManager
    /\ mgr[m].bundle_id
    /\ pending = <<>>
    /\ pending' = <<[kind |-> "bridge", m |-> m, op |-> op, cell |-> "some", n |-> 0,
                     inside |-> <<>>, first |-> None, delivered |-> <<>>]>>
    /\ last' = Last(op, m, t, "Pending", None)
    /\ UNCHANGED <<codecVars, completed, permVars, cleared, given,
                   registered, dropped, platform, bundle, mgr, handlerCell,
                   categories, delegateRef, listener, chan, centerDelegate,
                   centerCategories, toasts, calls, nSent, nEvents>>

\* The notification center invokes the block, on a thread of its choice: cb.take()
\* reads the cell. An invocation that reads Some goes on with what it read; one that
\* reads None does nothing. The RefCell is not synchronized, so that an invocation
\* can read Some while another has read it and not yet stored None.
BlockTakes(i, result) ==
    /\ i \in 1..Len(pending)
    /\ pending[i].kind = "bridge"
    /\ pending[i].n < MaxInvocations
    /\ result \in ResultsOf(pending[i].op)
    /\ LET b == pending[i] IN
       IF b.cell = "some"
       THEN /\ pending' = [pending EXCEPT ![i].n = @ + 1,
                                          ![i].inside = Append(@, result),
                                          ![i].first = IF @ = None THEN result ELSE @]
            /\ last' = Last("block", b.m, None, "taken", result)
       ELSE /\ pending' = [pending EXCEPT ![i].n = @ + 1]
            /\ last' = Last("block", b.m, None, "ignored", result)
    /\ UNCHANGED <<codecVars, completed, permVars, cleared, given,
                   registered, dropped, platform, bundle, mgr, handlerCell,
                   categories, delegateRef, listener, chan, centerDelegate,
                   centerCategories, toasts, calls, nSent, nEvents>>

\* What a send through the sender can do. An invocation that had the cell to itself
\* delivers its result. Two invocations that both read Some race on the cell and
\* on the one sender they both hold: the result is delivered, or is lost, or the
\* process aborts.
SendEffects(b) ==
    IF Len(b.inside) > 1 \/ b.cell = "none" THEN {"sent", "lost", "abort"} ELSE {"sent"}

\* An invocation that read Some stores None in the cell and sends its result.
BlockSends(i, effect) ==
    /\ i \in 1..Len(pending)
    /\ pending[i].kind = "bridge"
    /\ pending[i].inside # <<>>
    /\ effect \in SendEffects(pending[i])
    /\ LET b == pending[i] IN
       /\ pending' = [pending EXCEPT
                         ![i].cell = "none",
                         ![i].inside = Tail(@),
                         ![i].delivered = IF effect = "sent" THEN Append(@, Head(b.inside))
                                          ELSE @]
       /\ last' = Last("block", b.m, None, effect, Head(b.inside))
    /\ UNCHANGED <<codecVars, completed, permVars, cleared, given,
                   registered, dropped, platform, bundle, mgr, handlerCell,
                   categories, delegateRef, listener, chan, centerDelegate,
                   centerCategories, toasts, calls, nSent, nEvents>>

\* One manager starts an awaiting operation and the notification center invokes its
\* completion block up to MaxInvocations times, until the process aborts.
BridgeNext ==
    \/ \E t \in Threads : TryNewA("m1", t)
    \/ \E t \in Threads, op \in AwaitingOps : BridgeStart("m1", t, op)
    \/ \E i \in 1..Len(pending) : \E result \in ResultsOf(pending[i].op) :
          last.res # "abort" /\ BlockTakes(i, result)
    \/ \E i \in 1..Len(pending), effect \in {"sent", "lost", "abort"} :
          last.res # "abort" /\ BlockSends(i, effect)

SpecBridge == StoreInit /\ [][BridgeNext]_vars

----------------------------------------------------------------------------
(* The callback-URI round trip *)

\* C1: decoding the URI that encode_deeplink made of (N, A, M) gives back exactly
\* the notification id N, the action A and the metadata M.
C1_RoundTrip ==
    cPc = "decoded" =>
        /\ cOut.ok
        /\ cOut.notification_id = cIn.resp.notification_id
        /\ cOut.action = cIn.resp.action
        /\ cOut.user_metadata = cIn.resp.user_metadata

\* The part of the round trip the code keeps: the id and the metadata always come
\* back, and so do the two reserved actions.
RoundTripIdAndMetadata ==
    cPc = "decoded" =>
        /\ cOut.ok
        /\ cOut.notification_id = cIn.resp.notification_id
        /\ cOut.user_metadata = cIn.resp.user_metadata
        /\ (cIn.resp.action.kind \in {"Default", "Dismiss"}
              => cOut.action = cIn.resp.action)

----------------------------------------------------------------------------
(* Registration *)

\* Results that report a failure of the native layer, not a decision of the adapter.
NativeFailures == {"Windows", "Other", "NSError", "TokioRecv"}

C3_FailedRegisterKeepsDelivery ==
    [][(last'.op = "register" /\ last'.m \in registered /\ last'.res # "Ok")
         => /\ centerDelegate' = centerDelegate
            /\ handlerCell' = handlerCell
            /\ listener' = listener]_vars

\* Whether a send on manager m with this category_id finds the category.
Resolves(m, category_id) ==
    IF platform = "B" THEN category_id \in DOMAIN categories[m]
    ELSE category_id \in centerCategories

\* C4: when a manager registered with the category set {X} is registered with {Y},
\* Y resolves afterwards and X no longer does.
C4_LastRegistrationWins ==
    [][\A t \in Threads, h \in Handlers :
          (/\ "m1" \in registered
           /\ Resolves("m1", <<"X">>)
           /\ \/ RegisterA("m1", t, h, <<CatY>>)
              \/ RegisterB("m1", t, h, <<CatY>>, TRUE, EmptyMap))
          => (Resolves("m1", <<"Y">>)' /\ ~Resolves("m1", <<"X">>)')]_vars

----------------------------------------------------------------------------
(* Threads *)

MainThreadOps == {"register", "send"} \cup PermissionOps

FirstRegisterOnOwnThread ==
    /\ last'.op = "register"
    /\ last'.m \notin registered
    /\ handlerCell[last'.m] = None
    /\ ~delegateRef[last'.m]
    /\ platform = "A" => mgr[last'.m].creator = last'.t

SendOnOwnThread ==
    /\ last'.op = "send"
    /\ platform = "A" => mgr[last'.m].creator = last'.t

\* C6: with a bundle identifier and a working native layer, try_new, the first
\* register and send succeed on a manager constructed and used on a thread other
\* than the main thread.
C6_NonMainThreadManagerWorks ==
    [][(/\ bundle
        /\ last'.t # MainThread
        /\ last'.op = "try_new" \/ FirstRegisterOnOwnThread \/ SendOnOwnThread)
         => last'.res \in {"Ok", "Pending"} \cup NativeFailures]_vars

\* C7: with a bundle identifier and a working native layer, each manager's first
\* register and each send succeed on the thread the manager was constructed on,
\* whatever the other manager has done.
C7_InstancesIndependent ==
    [][\A m \in Mgrs :
          (/\ bundle
           /\ last'.m = m
           /\ FirstRegisterOnOwnThread \/ SendOnOwnThread)
          => last'.res \in {"Ok", "Pending"} \cup NativeFailures]_vars

----------------------------------------------------------------------------
(* Dismissals on Adapter B *)

\* The invocation the dismissal closure cb makes of handler h.
DismissInvocation(cb, h) ==
    Invocation(cb.sub.mgr, h,
               Response(cb.ev, cb.sub.notification_id, ActDismiss, NoneStr, cb.sub.user_info))

\* C8: a dismissal whose reason is not UserCanceled (a timeout, the application
\* hiding the toast, an unreadable reason) invokes no handler; a dismissal whose
\* reason is UserCanceled invokes the handler exactly once, with action Dismiss.
C8_DismissalFiltering ==
    [][last'.op = "dismissed"
         => IF Head(pending).arg = "UserCanceled"
            THEN \E h \in Handlers : calls' = Append(calls, DismissInvocation(Head(pending), h))
            ELSE calls' = calls]_vars

\* C8, as the code has it: a UserCanceled dismissal invokes the handler exactly
\* once, with action Dismiss, when the manager has a handler at that time; with no
\* handler registered yet it is dropped. Every other dismissal invokes no handler.
C8_DismissalFilteringRegistered ==
    [][last'.op = "dismissed"
         => IF Head(pending).arg = "UserCanceled" /\ handlerCell[Head(pending).sub.mgr] # None
            THEN calls' = Append(calls, DismissInvocation(Head(pending),
                                                         handlerCell[Head(pending).sub.mgr]))
            ELSE calls' = calls]_vars

C8_UserCanceledForwarded ==
    /\ last.op = "dismissed"
    /\ last.res = "invoked"
    /\ calls # <<>>
    /\ calls[Len(calls)].resp.action = ActDismiss

----------------------------------------------------------------------------
(* The event channel of Adapter A *)

\* The events in a sequence of responses, or of invocations.
EventsOf(q) == [i \in 1..Len(q) |-> q[i].ev]
CalledEvents(m) ==
    EventsOf(SelectSeq([i \in 1..Len(calls) |-> calls[i].resp @@ [mgr |-> calls[i].mgr]],
                       LAMBDA r : r.mgr = m))

Increasing(q) == \A i, j \in 1..Len(q) : i < j => q[i] < q[j]

C10_FullChannelDrops ==
    \A m \in Mgrs :
       /\ Len(chan[m]) <= NOTIFICATION_RESPONSE_CHANNEL_SIZE
       /\ \A i \in 1..Len(chan[m]) : chan[m][i].ev \notin dropped
       /\ \A i \in 1..Len(calls) : calls[i].resp.ev \notin dropped
       /\ (last.op = "response" /\ last.m = m /\ last.res = "dropped")
             => /\ Len(chan[m]) = NOTIFICATION_RESPONSE_CHANNEL_SIZE
                /\ last.ret \in dropped
       /\ (last.op = "response" /\ last.m = m /\ last.res = "queued")
             => /\ chan[m] # <<>>
                /\ chan[m][Len(chan[m])].ev = last.ret

C10_EventDroppedWhenFull ==
    /\ last.op = "response"
    /\ last.res = "dropped"
    /\ Len(chan[ChanMgr]) = NOTIFICATION_RESPONSE_CHANNEL_SIZE
    /\ dropped # {}

----------------------------------------------------------------------------
(* Adapter A: send and its completion callback *)

\* C11: on Adapter A every step in which a send that submitted a request resolves
\* is the firing of that request's completion callback: with success send
\* resolves to the handle, with a native error to that error and no handle; until
\* the callback fires the send stays pending.
C11_ResolvesOnlyWhenFired ==
    [][(platform = "A" /\ last'.op = "send" /\ last'.res \notin {"Pending", "NoBundleId"})
         => \E i \in 1..Len(pending) :
               /\ pending[i].kind = "completion"
               /\ pending' = RemoveAt(pending, i)
               /\ \/ /\ last'.res = "Ok"
                     /\ last'.ret = HandleOf(pending[i].request)
                  \/ /\ last'.res = "NSError"
                     /\ toasts' = toasts]_vars

\* C11, as the code has it: a send resolves at once with NoBundleId, submitting no
\* request, when the manager has no bundle identifier; a send that submitted a
\* request stays pending until its completion callback fires or is released by
\* the native layer without having fired: fired with success it resolves to the
\* handle of that request, fired with a native error to that error and no handle,
\* released unfired to the channel's receive error and no handle.
C11_ResolvesWhenFiredOrReleased ==
    [][(platform = "A" /\ last'.op = "send")
         => \/ /\ last'.res = "NoBundleId"
               /\ ~mgr[last'.m].bundle_id
               /\ UNCHANGED <<pending, toasts>>
            \/ /\ last'.res = "Pending"
               /\ mgr[last'.m].bundle_id
               /\ Len(pending') = Len(pending) + 1
               /\ pending'[Len(pending')].kind = "completion"
               /\ pending'[Len(pending')].m = last'.m
               /\ UNCHANGED toasts
            \/ \E i \in 1..Len(pending) :
                  /\ pending[i].kind = "completion"
                  /\ pending[i].m = last'.m
                  /\ pending' = RemoveAt(pending, i)
                  /\ \/ /\ last'.res = "Ok"
                        /\ last'.ret = HandleOf(pending[i].request)
                        /\ toasts' = (pending[i].n :> pending[i].request) @@ toasts
                     \/ /\ last'.res \in {"NSError", "TokioRecv"}
                        /\ last'.ret = None
                        /\ toasts' = toasts]_vars

C11_SendResolvedUnfired ==
    /\ platform = "A"
    /\ last.op = "send"
    /\ last.res = "TokioRecv"
    /\ pending = <<>>
    /\ nSent > 0

----------------------------------------------------------------------------
(* Metadata and actions in the responses *)

\* C12: every response handed to a handler, and every response queued for one,
\* carries as user_metadata the mapping that was given to send for its
\* notification, whether the response is an activation or a dismissal.
C12_MetadataReachesResponses ==
    /\ \A i \in 1..Len(calls) :
          calls[i].resp.notification_id \in DOMAIN given
             => calls[i].resp.user_metadata = given[calls[i].resp.notification_id]
    /\ \A m \in Mgrs : \A i \in 1..Len(chan[m]) :
          chan[m][i].notification_id \in DOMAIN given
             => chan[m][i].user_metadata = given[chan[m][i].notification_id]

\* The identifiers of the actions in the categories manager m has stored.
StoredActions(m) ==
    UNION {{categories[m][c].actions[i].identifier :
               i \in 1..Len(categories[m][c].actions)} : c \in DOMAIN categories[m]}

\* C13: on Adapter B, with or without a notification protocol, when the user
\* selects an action of a notification sent with a registered category the
\* activation fires exactly one subscription, and its closure invokes the handler
\* once with Other(a), a being the identifier the action was registered with.
C13_SelectedActionReachesHandler ==
    [][/\ (last'.op = "user_activates" /\ Len(pending') > 0
            /\ pending'[1].arg \in StoredActions(pending'[1].sub.mgr))
           => Len(pending') = 1
       /\ (last'.op = "activated" /\ Head(pending).arg \in StoredActions(last'.m))
           => /\ handlerCell[last'.m] # None
              /\ calls' = Append(calls,
                     Invocation(last'.m, handlerCell[last'.m],
                        Response(Head(pending).ev, Head(pending).sub.notification_id,
                                 ActOther(Head(pending).arg), NoneStr,
                                 Head(pending).sub.user_info)))]_vars

----------------------------------------------------------------------------
(* Delivered notifications *)

\* The steps in which a delivered notification leaves the OS's list: a removal by
\* the application (through the manager or by closing a handle), or the user's
\* activation, dismissal or response.
RemovingOps == {"remove_all_delivered_notifications", "remove_delivered_notifications",
                "close", "user_activates", "toast_dismissed", "response"}

C15_EmptyAfterRemoveAll ==
    [][(last'.op = "get_active_notifications" /\ last'.res = "Ok" /\ cleared # "no")
          => last'.ret = <<>>]_vars

\* C15: once remove_all_delivered_notifications has returned Ok after a native
\* clear succeeded (on Adapter A the removal, on Adapter B the bulk clear or the
\* fallback) and no send was made since, every list get_active_notifications
\* returns is empty; when on Adapter B the bulk clear and the fallback both
\* failed, the call returned Ok and left every notification in place.
C15_EmptyAfterNativeClear ==
    [][/\ (last'.op = "get_active_notifications" /\ last'.res = "Ok"
             /\ cleared = "native")
          => last'.ret = <<>>
       /\ (last'.op = "remove_all_delivered_notifications" /\ last'.res = "Ok")
          => /\ cleared' = "native" => toasts' = EmptyMap
             /\ cleared' = "skipped"
                   => platform = "B" /\ last'.ret = "fallback_failed" /\ toasts' = toasts
             /\ cleared' # "no"]_vars

\* Notifications were sent or left from an earlier session, remove_all returned Ok
\* after a native clear, and get_active_notifications then returned the empty list.
C15_ClearedThenEmpty ==
    /\ last.op = "get_active_notifications"
    /\ last.res = "Ok"
    /\ last.ret = <<>>
    /\ cleared = "native"
    /\ nSent > 0

\* C16 as stated: on Adapter B remove_all_delivered_notifications returns Ok
\* whatever the native clearing calls do.
C16_RemoveAllNeverFailsB ==
    [][(platform = "B" /\ last'.op = "remove_all_delivered_notifications")
          => last'.res = "Ok"]_vars

\* C17 as stated: remove_delivered_notifications(ids) returns Ok, removes exactly
\* the delivered notifications whose id is in ids and leaves the others as they were.
C17_RemovesExactlyIds ==
    [][last'.op = "remove_delivered_notifications"
          => /\ last'.res = "Ok"
             /\ toasts' = Restrict(toasts, {n \in DOMAIN toasts :
                                               toasts[n].tag \notin last'.ret})]_vars

----------------------------------------------------------------------------
(* Adapter A: the application identity *)

\* C18 as stated: on Adapter A, try_new fails with NoBundleId when the process has
\* no bundle identifier, and every manager a constructor has returned holds a
\* bundle identifier.
C18_NoManagerWithoutIdentity ==
    /\ (platform = "A" /\ last.op = "try_new" /\ ~bundle) => last.res = "NoBundleId"
    /\ \A m \in Mgrs : (platform = "A" /\ mgr[m] # NoManager) => mgr[m].bundle_id

----------------------------------------------------------------------------
(* Permission *)

C20_OnlyDeclinedErrorRemapped ==
    [][(/\ platform = "A"
        /\ last'.op = "first_time_ask_for_notification_permission"
        /\ last'.res \in {"true", "false", "NSError"}
        /\ last'.ret.error # NoError)
          => last'.res = IF /\ last'.ret.error.domain = "UNErrorDomain"
                            /\ last'.ret.error.code = 1
                         THEN "false" ELSE "NSError"]_vars

\* C20: on Adapter A, when the authorization handler is called with an error,
\* first_time_ask_for_notification_permission resolves to false exactly if the
\* error's code is 1 and its description contains "allowed", whatever its domain,
\* and to the error otherwise; no error resolves to true.
C20_RemappedByCodeAndDescription ==
    [][(/\ platform = "A"
        /\ last'.op = "first_time_ask_for_notification_permission"
        /\ last'.res \in {"true", "false", "NSError"}
        /\ last'.ret.error # NoError)
          => last'.res = IF /\ last'.ret.error.code = 1
                            /\ Contains(last'.ret.error.description,
                                        <<"a", "l", "l", "o", "w", "e", "d">>)
                         THEN "false" ELSE "NSError"]_vars

\* The user declined at the prompt, the OS reported that notifications are not
\* allowed, and the call returned false.
C20_DeclinedAtPrompt ==
    /\ platform = "A"
    /\ last.op = "first_time_ask_for_notification_permission"
    /\ last.res = "false"
    /\ last.ret.prompted
    /\ last.ret.called
    /\ last.ret.error = NotAllowedError

----------------------------------------------------------------------------
(* Clones *)

\* C21 as stated, for calls on the main thread: a clone has the cells of the
\* manager it was made from; once register has succeeded through one value,
\* register through any value fails with the multiple-registration error; and from
\* then on every interaction with a notification reaches the registered handler:
\* the notification center has a delegate to call, and each subscription that
\* fires finds the handler.
C21_ClonesShareRegistration ==
    [][/\ last'.op = "clone" => mgr'[last'.m] = mgr[mgr'[last'.m].inner]
       /\ (last'.op = "register" /\ last'.m \in registered /\ last'.t = MainThread)
             => last'.res \in {"MultipleRegisterCalls", "SettingHandler"}
       /\ (last'.op = "response" /\ registered # {}) => last'.res # "no_delegate"
       /\ (last'.op \in {"activated", "dismissed"} /\ last'.m \in registered)
             => last'.res = "invoked"]_vars

----------------------------------------------------------------------------
(* Handles *)

\* C22 as stated: after close on a handle returns Ok no delivered notification
\* has the handle's id, so get_active_notifications lists none with it; dropping
\* a handle leaves the delivered notifications as they are.
C22_CloseRemoves ==
    [][/\ (last'.op = "close" /\ last'.res = "Ok")
             => \A n \in DOMAIN toasts' : toasts'[n].tag # last'.ret
       /\ last'.op = "drop" => toasts' = toasts]_vars

\* The ids of the notifications handed to the OS so far, delivered or not.
C23_IdsSoFar ==
    DOMAIN given \cup {toasts[n].tag : n \in DOMAIN toasts}
        \cup {pending[i].request.tag : i \in {j \in 1..Len(pending) :
                                                 pending[j].kind = "completion"}}

----------------------------------------------------------------------------
(* Adapter B: subscriptions *)

\* Whether toast n has an activation and a dismissal subscription of manager m.
C24_Subscribed(m, n) ==
    /\ \E i \in 1..Len(toasts[n].asubs) : toasts[n].asubs[i].mgr = m
    /\ \E i \in 1..Len(toasts[n].dsubs) : toasts[n].dsubs[i].mgr = m

\* C24 as stated: after register returns Ok on Adapter B every notification in the
\* history for the manager's app id has an activation and a dismissal subscription
\* of the manager, and an activation of such a notification by the user reaches a
\* subscription.
C24_HistorySubscribed ==
    [][/\ (platform = "B" /\ last'.op = "register" /\ last'.res = "Ok")
             => \A n \in HistoryOf("app1")' : C24_Subscribed("m1", n)'
       /\ (platform = "B" /\ last'.op = "user_activates" /\ "m1" \in registered)
             => pending' # <<>>]_vars

\* C25: on Adapter B a send that returns a handle has shown its notification with
\* an activation and a dismissal subscription of the manager attached; a send that
\* fails, in building the toast, in attaching a subscription or in Show, has shown
\* nothing; no step of send shows a notification that lacks either subscription.
C25_ShownOnlySubscribed ==
    [][(platform = "B" /\ last'.op = "send")
         => /\ last'.res = "Ok"
                 => \E n \in DOMAIN toasts' \ DOMAIN toasts : toasts'[n].tag = last'.ret.id
            /\ last'.res # "Ok" => toasts' = toasts
            /\ \A n \in DOMAIN toasts' \ DOMAIN toasts :
                  /\ \E i \in 1..Len(toasts'[n].asubs) : toasts'[n].asubs[i].mgr = last'.m
                  /\ \E i \in 1..Len(toasts'[n].dsubs) : toasts'[n].dsubs[i].mgr = last'.m]_vars

\* A send on Adapter B returned a handle and its notification is shown with both
\* subscriptions.
C25_ShownWithBoth ==
    /\ platform = "B"
    /\ last.op = "send"
    /\ last.res = "Ok"
    /\ \E n \in DOMAIN toasts :
          /\ toasts[n].tag = last.ret.id
          /\ Len(toasts[n].asubs) = 1
          /\ Len(toasts[n].dsubs) = 1

----------------------------------------------------------------------------
(* Adapter B: how an activation is decoded *)

\* The callback URI send writes into the launch attribute of a notification of
\* this subscription.
C26_CallbackUri(sub) ==
    encode_deeplink(sub.protocol,
        [notification_id |-> sub.notification_id, action |-> ActDefault,
         user_input |-> NoneStr, user_metadata |-> given[sub.notification_id]])

\* C26 as stated: on Adapter B the closure hands the handler the action kind
\* encoded in the activation string when the string is the callback URI the
\* adapter encoded for the notification, and Other(s) for every other non-empty
\* activation string s, with or without a protocol.
C26_ActivationDecoding ==
    [][(last'.op = "activated" /\ last'.res = "invoked" /\ Head(pending).arg # NoneStr)
         => LET cb == Head(pending)
                action == calls'[Len(calls')].resp.action
            IN  IF cb.sub.protocol # NoneStr /\ cb.arg = C26_CallbackUri(cb.sub)
                THEN action = ActDefault
                ELSE action = ActOther(cb.arg)]_vars

\* Whether an activation of this toast with this string meets a decoding failure:
\* the string is not a URI the decoder accepts, or the stored metadata is unreadable.
C27_DecodingFails(toast, arg) ==
    \/ arg # NoneStr /\ ~decode_deeplink(arg).ok
    \/ ~user_info_from_toast(toast).ok

----------------------------------------------------------------------------
(* The notification a response names *)

\* C28: the id of the handle send returns is the id the OS holds the notification
\* under; an interaction of the user with a notification hands every closure (B)
\* or the delegate (A) that notification's id, and the response the handler is
\* invoked with carries it, for activations and dismissals alike and whatever the
\* activation string is.
C28_ResponseNamesNotification ==
    [][/\ (last'.op = "send" /\ last'.res = "Ok")
            => \E n \in DOMAIN toasts' \ DOMAIN toasts : toasts'[n].tag = last'.ret.id
       /\ last'.op \in {"user_activates", "toast_dismissed"}
            => \E n \in DOMAIN toasts :
                  /\ Len(pending') = IF last'.op = "user_activates"
                                     THEN Len(toasts[n].asubs) ELSE Len(toasts[n].dsubs)
                  /\ \A i \in 1..Len(pending') :
                        pending'[i].sub.notification_id = toasts[n].tag
       /\ (last'.op \in {"activated", "dismissed"} /\ last'.res = "invoked")
            => /\ Len(calls') = Len(calls) + 1
               /\ calls'[Len(calls')].resp.notification_id
                     = Head(pending).sub.notification_id
       /\ (last'.op = "response" /\ last'.res = "queued")
            => \E n \in DOMAIN toasts \ DOMAIN toasts' :
                  chan'[last'.m][Len(chan'[last'.m])].notification_id = toasts[n].tag
       /\ (last'.op = "handler" /\ last'.res = "called")
            => calls'[Len(calls')].resp = Head(chan[last'.m])]_vars

\* The handler of a manager with a protocol was invoked for a tap on the body of a
\* notification, whose activation string is the callback URI, with the id of the
\* handle send returned.
C28_UriActivationNamed ==
    /\ platform = "B"
    /\ last.op = "activated"
    /\ last.res = "invoked"
    /\ mgr[last.m].protocol # NoneStr
    /\ calls[Len(calls)].resp.action = ActDefault
    /\ calls[Len(calls)].resp.notification_id \in DOMAIN given

----------------------------------------------------------------------------
(* Categories at send *)

\* C29: while the native calls succeed, no send fails, whatever its category_id
\* and whatever categories the manager has stored, except for want of a bundle
\* identifier on Adapter A. On Adapter B the notification of a category_id the
\* manager has not stored carries no action markup; on Adapter A the request
\* carries the category_id as given.
C29_CategoryNeverFailsSend ==
    [][last'.op = "send"
         => /\ last'.res \in {"Ok", "Pending", "NoBundleId"}
            /\ last'.res = "NoBundleId" => (platform = "A" /\ ~mgr[last'.m].bundle_id)
            /\ \A b \in ActBuilders :
                  /\ SendB("m1", MainThread, b, "ok")
                        => /\ last'.res = "Ok"
                           /\ b.category_id \notin DOMAIN categories["m1"]
                                 => \A n \in DOMAIN toasts' \ DOMAIN toasts :
                                       toasts'[n].actions = <<>>
                  /\ SendStartA("m1", MainThread, b)
                        => (last'.res = "Pending"
                              => pending'[Len(pending')].request.category
                                    = b.category_id)]_vars

\* A send with category_id "X" on a manager of Adapter B that has stored no
\* category returned a handle, and its notification has no action markup.
C29_UnknownCategorySent ==
    /\ platform = "B"
    /\ last.op = "send"
    /\ last.res = "Ok"
    /\ categories[last.m] = EmptyMap
    /\ last.ret.user_metadata = (<<"k">> :> <<"v">>)
    /\ \E n \in DOMAIN toasts : toasts[n].tag = last.ret.id /\ toasts[n].actions = <<>>

\* The action markup of category_id in a category map.
C30_Markup(map, category_id) ==
    IF category_id \in DOMAIN map
    THEN [i \in 1..Len(map[category_id].actions) |->
            [arguments |-> XmlAttribute(map[category_id].actions[i].identifier),
             input |-> map[category_id].actions[i].type = "TextInputAction"]]
    ELSE <<>>

\* The complete category sets of manager m: the stored one, or, while a register
\* is storing, the set that held before it and the set passed to it.
C30_CompleteSets(m) ==
    IF \E i \in 1..Len(pending) : pending[i].kind = "store" /\ pending[i].m = m
    THEN {EmptyMap, store_categories(LockCategories)}
    ELSE {categories[m]}

\* C30: on Adapter B the action markup of a notification sent with a category_id,
\* while a register of the manager may be storing its categories, is that of the
\* category_id in the complete set that held before the register or in the
\* complete set passed to it.
C30_SendSeesCompleteSet ==
    [][\A t \in Threads, b \in Builders :
          (b.category_id # NoneStr /\ SendB("m1", t, b, "ok"))
             => \A n \in DOMAIN toasts' \ DOMAIN toasts :
                   toasts'[n].actions
                      \in {C30_Markup(set, b.category_id) : set \in C30_CompleteSets("m1")}]_vars

\* A send with category_id "X" returned a handle while a register of the manager
\* was between the handler cell and the write lock of store_categories.
C30_SentDuringRegister ==
    /\ platform = "B"
    /\ last.op = "send"
    /\ last.res = "Ok"
    /\ last.ret.user_metadata = (<<"k">> :> <<"v">>)
    /\ \E i \in 1..Len(pending) : pending[i].kind = "store" /\ pending[i].stage = "wait"

----------------------------------------------------------------------------
(* Adapter A: released completion blocks *)

\* C31: on Adapter A, when the notification center releases the completion block of
\* send, get_notification_permission_state, first_time_ask_for_notification_permission
\* or get_active_notifications without calling it, the awaiting operation returns
\* the communication error (TokioRecv): it neither stays pending nor returns a value.
C31_ReleasedIsCommunicationError ==
    [][/\ \A i \in 1..Len(pending) :
            SendCompleteA(i, "released")
               => /\ last'.op = "send"
                  /\ last'.res = "TokioRecv"
                  /\ last'.ret = None
                  /\ Len(pending') = Len(pending) - 1
                  /\ toasts' = toasts
       /\ \A t \in Threads, op \in PermissionOps :
            \A outcome \in PermissionOutcomes(op) :
               (/\ mgr["m1"] # NoManager
                /\ mgr["m1"].bundle_id
                /\ ~outcome.called
                /\ PermissionA("m1", t, op, outcome))
                  => last'.op = op /\ last'.res = "TokioRecv"
       /\ \A t \in Threads :
            (/\ mgr["m1"] # NoManager
             /\ mgr["m1"].bundle_id
             /\ GetActiveA("m1", t, "released"))
               => /\ last'.op = "get_active_notifications"
                  /\ last'.res = "TokioRecv"
                  /\ last'.ret = None]_vars

\* The completion block of a permission operation was released after a send had
\* delivered a notification.
C31_ReleasedAfterSend ==
    /\ platform = "A"
    /\ last.op \in PermissionOps
    /\ last.res = "TokioRecv"
    /\ ~last.ret.called
    /\ toasts # EmptyMap
    /\ nSent = 1

----------------------------------------------------------------------------
(* The text the user typed *)

\* C32: on both adapters the user_input of a NotifyResponse is the text the user
\* typed when the interaction was a text-input action, and is absent for Default,
\* Dismiss and plain actions.
C32_UserInputIsTypedText ==
    [][/\ (last'.op = "activated" /\ last'.res = "invoked")
            => calls'[Len(calls')].resp.user_input = Head(pending).text
       /\ (last'.op = "dismissed" /\ last'.res = "invoked")
            => calls'[Len(calls')].resp.user_input = NoneStr
       /\ \A n \in DOMAIN toasts, native \in NativeResponses :
            (UserResponds(n, native) /\ last'.res = "queued")
               => LET event == chan'[last'.m][Len(chan'[last'.m])] IN
                  /\ event.user_input = native.userText
                  /\ event.action.kind \in {"Default", "Dismiss"}
                        => event.user_input = NoneStr]_vars

----------------------------------------------------------------------------
(* A register that fails *)

\* The errors register returns.
C33_RegisterErrors == {"NotMainThread", "MultipleRegisterCalls", "SettingHandler", "Windows"}

\* C33: a register that returns an error leaves the manager as it was before the
\* call: it installs no handler and no worker, the category set and the
\* subscriptions are unchanged, and so is the delegate of the notification center;
\* a manager on which no register succeeded still has an empty handler cell, so
\* that a later register can succeed.
C33_FailedRegisterChangesNothing ==
    [][(last'.op = "register" /\ last'.res \in C33_RegisterErrors)
          => /\ handlerCell' = handlerCell
             /\ categories' = categories
             /\ toasts' = toasts
             /\ delegateRef' = delegateRef
             /\ listener' = listener
             /\ centerDelegate' = centerDelegate
             /\ centerCategories' = centerCategories
             /\ (platform = "B" /\ last'.m \notin registered')
                   => handlerCell'[last'.m] = None]_vars

----------------------------------------------------------------------------
(* Adapter B: interactions before and after register *)

\* C34: on Adapter B the closure of an interaction (an activation, or a dismissal
\* by the user) with a notification, sent before register or after it, invokes the
\* handler of its manager when a register of the manager has succeeded; when the
\* manager has no handler the closure invokes nothing and the interaction is gone:
\* handler invocations are only ever added by the closure at the head of the
\* running event, for that event, and the closure is consumed.
C34_DeliveredOrDropped ==
    [][platform = "B" =>
         /\ (last'.op \in {"activated", "dismissed"})
               => LET cb == Head(pending) IN
                  /\ pending' = Tail(pending)
                  /\ (cb.sub.mgr \in registered /\ cb.arg \notin DismissalReasons \ {"UserCanceled"})
                        => /\ Len(calls') = Len(calls) + 1
                           /\ calls'[Len(calls')].handler = handlerCell[cb.sub.mgr]
                           /\ calls'[Len(calls')].resp.notification_id = cb.sub.notification_id
                  /\ handlerCell[cb.sub.mgr] = None => calls' = calls /\ chan' = chan
         /\ calls' # calls
               => /\ last'.op \in {"activated", "dismissed"}
                  /\ Len(calls') = Len(calls) + 1
                  /\ calls'[Len(calls')].resp.ev = Head(pending).ev]_vars

\* A notification sent in this session before register, and subscribed to again by
\* the register that succeeded, was activated and both closures invoked the handler.
C34_SentBeforeRegisterDelivered ==
    /\ platform = "B"
    /\ last.op = "activated"
    /\ last.res = "invoked"
    /\ "m1" \in registered
    /\ Len(calls) = 2
    /\ calls[1].resp.notification_id \in DOMAIN given
    /\ calls[2].resp.notification_id = calls[1].resp.notification_id

----------------------------------------------------------------------------
(* Adapter A: every accepted event reaches the handler *)

\* Whether event e is in the channel of the manager, or was handed to its handler.
C35_Queued(e) == \E i \in 1..Len(chan[ChanMgr]) : chan[ChanMgr][i].ev = e
C35_Handed(e) == \E i \in 1..Len(calls) : calls[i].resp.ev = e

\* C35: on Adapter A the events handed to the handler, followed by the events still
\* queued, are in the order of their acceptance, and, the worker running and each
\* handler invocation returning, every event the channel accepted is eventually
\* handed to the handler.
C35_InOrderAndEventually ==
    /\ [](Increasing(CalledEvents(ChanMgr) \o EventsOf(chan[ChanMgr])))
    /\ \A e \in 1..MaxChanEvents : C35_Queued(e) ~> C35_Handed(e)

\* The last event the model lets the user make was accepted behind a backlog and
\* has been handed to the handler, as has every accepted event before it.
C35_LastEventHanded ==
    /\ nEvents = MaxChanEvents
    /\ dropped # {}
    /\ MaxChanEvents \notin dropped
    /\ chan[ChanMgr] = <<>>
    /\ C35_Handed(MaxChanEvents)

----------------------------------------------------------------------------
(* Adapter A: register and the thread that constructed the manager *)

\* C36: on Adapter A the first register of a manager made on the main thread
\* returns Ok, whichever thread constructed the manager.
C36_FirstRegisterOnMainSucceeds ==
    [][(/\ platform = "A"
        /\ last'.op = "register"
        /\ last'.t = MainThread
        /\ ~delegateRef[last'.m])
          => last'.res = "Ok"]_vars

----------------------------------------------------------------------------
(* Adapter B: register over a history with a toast that cannot be subscribed *)

\* C37: on Adapter B a register that reads the history returns Ok whatever the
\* attaching of subscriptions did on each historical notification, and every
\* notification on which the attaching succeeded has got an activation and a
\* dismissal subscription of the manager, whether or not it failed on another one.
C37_OneFailureStopsNothing ==
    [][(platform = "B" /\ last'.op = "register") =>
         \A t \in Threads, h \in Handlers :
            \A outcomes \in [HistoryOf("app1") -> ListenerOutcomes] :
               (/\ last'.t = t
                /\ handlerCell["m1"] = None
                /\ handlerCell'["m1"] = h
                /\ RegisterB("m1", t, h, <<CatX>>, TRUE, outcomes))
                  => /\ last'.res = "Ok"
                     /\ DOMAIN toasts' = DOMAIN toasts
                     /\ \A n \in DOMAIN outcomes :
                           outcomes[n] = "both"
                              => /\ toasts'[n].asubs
                                      = Append(toasts[n].asubs, Subscription("m1", toasts[n]))
                                 /\ toasts'[n].dsubs
                                      = Append(toasts[n].dsubs, Subscription("m1", toasts[n]))]_vars

\* register returned Ok with no subscription on the notification of the earlier
\* session and a second pair of subscriptions on the one sent before it.
C37_LaterToastSubscribed ==
    /\ platform = "B"
    /\ last.op = "register"
    /\ last.res = "Ok"
    /\ DOMAIN toasts = {0, 1}
    /\ toasts[0].asubs = <<>>
    /\ Len(toasts[1].asubs) = 2
    /\ Len(toasts[1].dsubs) = 2

----------------------------------------------------------------------------
(* Adapter A: the delegate's completion handler *)

\* C38: on Adapter A the delegate has called the native completion handler exactly
\* once for every interaction response it received, whether the event was accepted
\* into the channel, refused because the channel was full, or refused because the
\* channel was closed, the worker having ended.
C38_CompletionOncePerResponse ==
    /\ DOMAIN completed = 1..nEvents
    /\ \A ev \in DOMAIN completed : completed[ev] = 1
    /\ (last.op = "response" /\ last.res \in {"queued", "dropped"})
          => completed[last.ret] = 1

\* A response found the channel closed, the handler having panicked on an earlier
\* response, and the delegate called its completion handler.
C38_ClosedChannelCompleted ==
    /\ listener[ChanMgr].pc = "panicked"
    /\ last.op = "response"
    /\ last.res = "dropped"
    /\ chan[ChanMgr] = <<>>
    /\ calls # <<>>
    /\ completed[last.ret] = 1

----------------------------------------------------------------------------
(* Adapter A: the end of the worker *)

\* The worker of the manager has ended by leaving its loop, or by a panic of the handler.
C40_Exited == listener[ChanMgr].pc = "exited"
C40_Ended == listener[ChanMgr].pc \in {"exited", "panicked"}

\* The worker runs and the delegate that holds the sender has been released.
C40_Released == listener[ChanMgr].pc \in {"recv", "handling"} /\ ~delegateRef[ChanMgr]

\* C40: on Adapter A the worker leaves its loop only in blocking_recv, with the
\* channel empty and the delegate that holds the sender released, and by then
\* every event the channel accepted has been handed to the handler; and once the
\* delegate is released the worker, running and its handler invocations ending,
\* eventually ends.
C40_WorkerEndsAfterRelease ==
    /\ [][(C40_Exited' /\ ~C40_Exited)
            => /\ listener[ChanMgr].pc = "recv"
               /\ ~delegateRef[ChanMgr]
               /\ chan[ChanMgr] = <<>>]_vars
    /\ [](C40_Exited
            => /\ ~delegateRef[ChanMgr]
               /\ chan[ChanMgr] = <<>>
               /\ {calls[i].resp.ev : i \in 1..Len(calls)} = (1..nEvents) \ dropped)
    /\ C40_Released ~> C40_Ended

\* The worker has left its loop after the manager was dropped, having handed at
\* least three events to the handler while others were refused.
C40_WorkerExited ==
    /\ C40_Exited
    /\ last.op = "handler"
    /\ last.res = "exited"
    /\ mgr[ChanMgr] = NoManager
    /\ Len(calls) >= 3
    /\ dropped # {}

----------------------------------------------------------------------------
(* Adapter A: a completion block invoked twice *)

\* C39: on Adapter A each completion bridge delivers at most one result to its
\* awaiting caller, and that result is the one of the first invocation of the
\* completion block; a later invocation delivers nothing.
C39_AtMostOneResult ==
    \A i \in 1..Len(pending) :
       pending[i].kind = "bridge"
          => /\ Len(pending[i].delivered) <= 1
             /\ pending[i].delivered # <<>> => pending[i].delivered[1] = pending[i].first
====
